---- MODULE Spec2Model ----
(***************************************************************************)
(* A model of jvlm, the LLVM-IR to JVM class file back end:                *)
(*   - the constant pool           (src/src/classfile/constant_pool.rs)    *)
(*   - the method writer            (src/src/classfile/mod.rs)              *)
(*   - the SSA translator           (src/src/lib.rs)                        *)
(*   - the memory strategy          (src/src/memory.rs)                     *)
(*   - compile and the CLI driver   (src/src/lib.rs, src/src/main.rs)       *)
(* The specifications share the variables: SpecPool drives the constant    *)
(* pool alone, SpecEmit the emitters of one MethodWriter, Spec the          *)
(* translation of one function into one class, SpecCompile two runs of     *)
(* compile on one module.  SpecPoolLimit, SpecForms, SpecCall and SpecCStr *)
(* drive the pool near its limit, the load, store and constant emitters,   *)
(* the translation of calls and memory accesses, and cstr_ops.             *)
(***************************************************************************)
EXTENDS Integers, Sequences, FiniteSets, TLC

VARIABLES
    \* ConstantPool
    entries,        \* ConstantPool.entries: the IndexSet, in insertion order
    lastOp,         \* the constant-pool operation called last, with its arguments
    lastRef,        \* the reference that call returned
    lenBefore,      \* entries.len() before that call
    nOps,           \* how many pool operations were called
    \* The build
    overflow_checks, \* whether integer overflow panics (dev profile) or wraps (release)
    \* MethodWriter and the MethodData it writes to
    code,           \* MethodData.code: the bytes
    wpos,           \* the ByteBuffer's write position
    current_frame,  \* MethodWriter.current_frame
    max_stack_size, \* MethodData.max_stack_size
    stackmaptable,  \* MethodData.stackmaptable: CodeLocation -> StackMapFrame
    panic,          \* "" or the panic that ended the compilation
    targets,        \* history: every InstructionTarget a branch emitter returned
    patched,        \* history: operand offset -> the location set_target wrote there
    invokes,        \* history: the invoke instructions emitted, in order
    \* A caller of the emitters
    saved_frame,    \* the frame get_current_stackframe returned, if any
    restored,       \* whether set_current_stackframe has put a saved frame back
    highWater,      \* history: the largest slot count the tracked stack reached
    lastPatch,      \* the set_target call just made, with the buffer before it
    lastEmit,       \* the emitter called last
    lastArgs,       \* its arguments and the write position before it, when recorded
    nEmits,         \* how many emitters were called
    \* The function being translated and its FunctionTranslationContext
    params,         \* the types of the function's parameters
    ret_ty,         \* the function's return type
    nblocks,        \* how many basic blocks the function has
    instrs,         \* the instructions translate_method has reached so far
    curBlock,       \* the block translate_method is in
    pc,             \* where translate_method and compile are
    next_slot,      \* FunctionTranslationContext.next_slot
    ssa_values,     \* instruction -> stored_in_slot
    stack_pointer,  \* MemorySegmentEmitter.stack_pointer, <<>> for None
    dirty,          \* MemorySegmentEmitter.dirty
    already_written, \* BasicBlockTracker.already_written: block -> CodeLocation
    to_write,       \* BasicBlockTracker.to_write: block -> InstructionTargets
    serialized,     \* <<>> or the methods ClassFileWriter::finalize serialized
    \* compile and main
    module,         \* the functions of the input module, in module order
    panic_unwind,   \* whether a panic unwinds (and drops the locals) or aborts
    run,            \* which run of the program this is
    fn_index,       \* the function compile's planning loop is at
    class_plans,    \* class name -> the names of the functions planned for it
    iter_left,      \* the classes the iteration over class_plans has yet to yield
    archive,        \* the entries this run's ZipWriter has written, in order
    out_buf,        \* what the BufWriter in front of the output file holds
    out_file,       \* <<>> if there is no output file, else <<its contents>>
    first_archive,  \* the archive the first run wrote
    cpc,            \* where main and compile are
    \* cstr_ops
    cstr,           \* the bytes of a CStr, its terminating NUL left out
    pat,            \* the bytes of a pattern
    starts          \* <<>> or <<what cstr.starts_with(pat) returned>>

poolVars == <<lastOp, lastRef, lenBefore, nOps>>
mwVars == <<code, wpos, current_frame, max_stack_size, stackmaptable, panic, targets, patched,
            invokes>>
emitVars == <<saved_frame, restored, highWater, lastPatch, lastEmit, lastArgs, nEmits>>

trVars == <<params, ret_ty, nblocks, instrs, curBlock, pc, next_slot, ssa_values,
            stack_pointer, dirty, already_written, to_write, serialized>>

compVars == <<module, panic_unwind, run, fn_index, class_plans, iter_left, archive,
              out_buf, out_file, first_archive, cpc>>

cstrVars == <<cstr, pat, starts>>

vars == <<entries, poolVars, overflow_checks, mwVars, emitVars, trVars, compVars, cstrVars>>

-----------------------------------------------------------------------------
(* Bounds of the model *)

\* SpecPool: number of constant-pool operations in one run
MaxOps == 3

\* SpecEmit: number of emitter calls on one method
MaxEmits == 4

\* Spec: basic blocks and instructions of the function translated
MaxBlocks == 2
MaxInstrs == 3

\* SpecCall: instructions of the function translated
MaxCallInstrs == 4

\* How many functions a compiled module has at most
MaxFunctions == 2

-----------------------------------------------------------------------------
(* Integer widths *)

\* ConstantPoolReference = u16
U16 == 65536

-----------------------------------------------------------------------------
(* ConstantPool: src/src/classfile/constant_pool.rs *)

\* The strings and integers the operations are called with
Strs == {"a", "b"}
Descs == {"b"}
PoolInts == {0, 7}

\* ConstantPoolEntry, one shape for every variant: the fields a variant does
\* not have hold "" or 0.
EUtf8(s)      == [tag |-> "Utf8", str |-> s, int |-> 0, r1 |-> 0, r2 |-> 0]
EClass(r)     == [tag |-> "Class", str |-> "", int |-> 0, r1 |-> r, r2 |-> 0]
EInt(i)       == [tag |-> "Int", str |-> "", int |-> i, r1 |-> 0, r2 |-> 0]
EFieldRef(c, nt)  == [tag |-> "FieldRef", str |-> "", int |-> 0, r1 |-> c, r2 |-> nt]
EMethodRef(c, nt) == [tag |-> "MethodRef", str |-> "", int |-> 0, r1 |-> c, r2 |-> nt]
EInterfaceMethodRef(c, nt) ==
    [tag |-> "InterfaceMethodRef", str |-> "", int |-> 0, r1 |-> c, r2 |-> nt]
ENameAndType(n, d) == [tag |-> "NameAndType", str |-> "", int |-> 0, r1 |-> n, r2 |-> d]

\* EFill(n), only ever the first element of a pool, stands for n entries that
\* differ from each other and from every entry a later call inserts
EFill(n) == [tag |-> "Fill", str |-> "", int |-> n, r1 |-> 0, r2 |-> 0]

\* IndexSet::len
len(p) == IF p # <<>> /\ p[1].tag = "Fill" THEN Len(p) - 1 + p[1].int ELSE Len(p)

\* `let x = e; body`: e is evaluated once and bound to the parameter of Body
Let(e, Body(_)) == Body(e)

\* IndexSet::get_index_of: the 0-based index of x, or -1
IndexOf(p, x) ==
    IF \E i \in 1..Len(p) : p[i] = x
    THEN (CHOOSE i \in 1..Len(p) : p[i] = x) - 1 + (len(p) - Len(p))
    ELSE -1

\* A variant of insert_full that appends without looking for an equal entry
insert_full_nodedup(p, x) == [pool |-> Append(p, x), index |-> len(p)]

\* IndexSet::insert_full: the index of the equal entry when there is one,
\* else the entry is appended and its index returned
insert_full(p, x) ==
    Let(IndexOf(p, x), LAMBDA i :
        IF i >= 0
        THEN [pool |-> p, index |-> i]
        ELSE [pool |-> Append(p, x), index |-> len(p)])

\* `.0 as ConstantPoolReference + 1`: the index cut to 16 bits, plus one.
\* The sum wraps in a build that does not check overflow; AddOverflows tells
\* when a build that does check panics instead.
AsRef(index) == ((index % U16) + 1) % U16

AddOverflows(index) == index % U16 = U16 - 1

Inserted(p, x) ==
    Let(insert_full(p, x), LAMBDA r : [pool |-> r.pool, ref |-> AsRef(r.index)])

utf8(p, s) == Inserted(p, EUtf8(s))

class(p, s) ==
    Let(utf8(p, s), LAMBDA u : Inserted(u.pool, EClass(u.ref)))

int(p, i) == Inserted(p, EInt(i))

name_and_type(p, name, descriptor) ==
    Let(utf8(p, name), LAMBDA n :
    Let(utf8(n.pool, descriptor), LAMBDA d :
        Inserted(d.pool, ENameAndType(n.ref, d.ref))))

fieldref(p, cls, name, descriptor) ==
    Let(utf8(p, cls), LAMBDA c :
    Let(name_and_type(c.pool, name, descriptor), LAMBDA nt :
        Inserted(nt.pool, EFieldRef(c.ref, nt.ref))))

methodref(p, cls, name, descriptor) ==
    Let(utf8(p, cls), LAMBDA c :
    Let(name_and_type(c.pool, name, descriptor), LAMBDA nt :
        Inserted(nt.pool, EMethodRef(c.ref, nt.ref))))

interfacemethodref(p, cls, name, descriptor) ==
    Let(utf8(p, cls), LAMBDA c :
    Let(name_and_type(c.pool, name, descriptor), LAMBDA nt :
        Inserted(nt.pool, EInterfaceMethodRef(c.ref, nt.ref))))

\* ConstantPool::serialize: `self.entries.len() as u16 + 1`
PoolCount(p) == AsRef(len(p))

\* A call of a pool operation, as data
NoOp == [op |-> "none", s1 |-> "", s2 |-> "", s3 |-> "", i |-> 0]
Call(op, s1, s2, s3, i) == [op |-> op, s1 |-> s1, s2 |-> s2, s3 |-> s3, i |-> i]

Apply(c, p) ==
    CASE c.op = "utf8"  -> utf8(p, c.s1)
      [] c.op = "class" -> class(p, c.s1)
      [] c.op = "int"   -> int(p, c.i)
      [] c.op = "name_and_type" -> name_and_type(p, c.s1, c.s2)
      [] c.op = "fieldref"  -> fieldref(p, c.s1, c.s2, c.s3)
      [] c.op = "methodref" -> methodref(p, c.s1, c.s2, c.s3)
      [] c.op = "interfacemethodref" -> interfacemethodref(p, c.s1, c.s2, c.s3)
      [] OTHER -> [pool |-> p, ref |-> 0]

-----------------------------------------------------------------------------
(* Descriptors: src/src/classfile/descriptor.rs *)

\* DescriptorEntry: k is the variant, name the binary name of a Class
DInt    == [k |-> "Int", name |-> ""]
DLong   == [k |-> "Long", name |-> ""]
DFloat  == [k |-> "Float", name |-> ""]
DDouble == [k |-> "Double", name |-> ""]
DByte   == [k |-> "Byte", name |-> ""]
DShort  == [k |-> "Short", name |-> ""]
DBoolean == [k |-> "Boolean", name |-> ""]
DClass(n) == [k |-> "Class", name |-> n]
\* Option<DescriptorEntry>::None, the return type of a void method
DVoid   == [k |-> "Void", name |-> ""]

\* MethodDescriptor(params, return)
MethodDescriptor(ps, r) == [params |-> ps, ret |-> r]

\* impl Display for DescriptorEntry
DescriptorEntryToString(d) ==
    CASE d.k = "Byte"    -> "B"
      [] d.k = "Char"    -> "C"
      [] d.k = "Double"  -> "D"
      [] d.k = "Float"   -> "F"
      [] d.k = "Int"     -> "I"
      [] d.k = "Long"    -> "J"
      [] d.k = "Class"   -> "L" \o d.name \o ";"
      [] d.k = "Short"   -> "S"
      [] d.k = "Boolean" -> "Z"
      [] OTHER           -> "V"

RECURSIVE ConcatDescriptors(_)
ConcatDescriptors(ps) ==
    IF ps = <<>> THEN ""
    ELSE DescriptorEntryToString(Head(ps)) \o ConcatDescriptors(Tail(ps))

\* impl Display for MethodDescriptor
MethodDescriptorToString(desc) ==
    "(" \o ConcatDescriptors(desc.params) \o ")" \o DescriptorEntryToString(desc.ret)

\* impl From<&DescriptorEntry> for JavaType
JavaTypeOfDescriptor(d) ==
    CASE d.k = "Double" -> "Double"
      [] d.k = "Float"  -> "Float"
      [] d.k = "Long"   -> "Long"
      [] d.k \in {"Class", "Array"} -> "Reference"
      [] OTHER -> "Int"

-----------------------------------------------------------------------------
(* The stack and locals tracker: src/src/classfile/mod.rs *)

\* Long and Double take two slots, every other verification type one
Width(t) == IF t \in {"Long", "Double"} THEN 2 ELSE 1

RECURSIVE SlotsOf(_)
\* impl From<Vec<VerificationType>> for VerificationTypeList: the slot count
SlotsOf(list) == IF list = <<>> THEN 0 ELSE Width(Head(list)) + SlotsOf(Tail(list))

\* VerificationTypeList(Vec<VerificationType>, usize): the list and its cached
\* slot count
VTList(list) == [list |-> list, slots |-> SlotsOf(list)]

\* VerificationTypeList::push
vtl_push(l, t) == [list |-> Append(l.list, t), slots |-> l.slots + Width(t)]

\* VerificationTypeList::pop, on a list that is not empty
vtl_pop(l) ==
    [list |-> SubSeq(l.list, 1, Len(l.list) - 1),
     slots |-> l.slots - Width(l.list[Len(l.list)])]

\* VerificationTypeList::len: the slot count, not the number of elements
vtl_len(l) == l.slots

\* The verification type of one descriptor entry
VerificationTypeOfDescriptor(d) ==
    CASE d.k = "Double" -> "Double"
      [] d.k = "Float"  -> "Float"
      [] d.k = "Long"   -> "Long"
      [] d.k \in {"Class", "Array"} -> "Object"
      [] OTHER -> "Integer"

\* calculate_initial_stackframe
calculate_initial_stackframe(desc) ==
    [stack  |-> VTList(<<>>),
     locals |-> VTList([i \in 1..Len(desc.params) |->
                            VerificationTypeOfDescriptor(desc.params[i])])]

-----------------------------------------------------------------------------
(* MethodWriter: src/src/classfile/mod.rs                                   *)
(* A writer w is the record of the MethodWriter, of the MethodData it writes *)
(* to and of the constant pool of its class:                                *)
(*   code, wpos              the ByteBuffer MethodData.code                 *)
(*   frame                   MethodWriter.current_frame                     *)
(*   max_stack_size          MethodData.max_stack_size                      *)
(*   stackmaptable           MethodData.stackmaptable                       *)
(*   pool                    ClassFileWriter.constant_pool                  *)
(*   panic                   "" or the panic that ended the compilation     *)
(*   ret                     the value the last call returned               *)
(*   oc                      whether the build checks integer overflow      *)
(*   targets, patched        history: the InstructionTargets handed out,    *)
(*                           and operand offset -> location set_target wrote *)
(*   invokes                 history: opcode, location, name, descriptor and *)
(*                           number of values popped of every invoke emitted *)
(***************************************************************************)

Panicked(w) == w.panic # ""

Panic(w, why) == IF Panicked(w) THEN w ELSE [w EXCEPT !.panic = why]

\* A map as a function: insert or overwrite a key
Put(m, k, v) == [x \in (DOMAIN m) \cup {k} |-> IF x = k THEN v ELSE m[x]]

\* A map as a function: remove a key
Remove(m, k) == [x \in (DOMAIN m) \ {k} |-> m[x]]

\* ByteBuffer::write_u8: overwrites at wpos inside the data, appends at its end
write_u8(w, b) ==
    IF Panicked(w) THEN w
    ELSE [w EXCEPT !.code = IF w.wpos < Len(w.code)
                            THEN [w.code EXCEPT ![w.wpos + 1] = b]
                            ELSE Append(w.code, b),
                   !.wpos = w.wpos + 1]

\* ByteBuffer::write_u16, big endian
write_u16(w, v) == write_u8(write_u8(w, (v \div 256) % 256), v % 256)

\* ByteBuffer::write_i8: the two's complement byte
write_i8(w, v) == write_u8(w, v % 256)

\* ByteBuffer::write_i16, big endian two's complement
write_i16(w, v) == write_u16(w, v % 65536)

\* A variant of record_push that compares the number of elements, not slots
record_push_elements(w, t) ==
    IF Panicked(w) THEN w
    ELSE Let(vtl_push(w.frame.stack, t), LAMBDA st :
             [w EXCEPT !.frame.stack = st,
                       !.max_stack_size = IF Len(st.list) > w.max_stack_size
                                          THEN Len(st.list) ELSE w.max_stack_size])

\* MethodWriter::record_push
record_push(w, t) ==
    IF Panicked(w) THEN w
    ELSE Let(vtl_push(w.frame.stack, t), LAMBDA st :
             [w EXCEPT !.frame.stack = st,
                       !.max_stack_size = IF vtl_len(st) > w.max_stack_size
                                          THEN vtl_len(st) ELSE w.max_stack_size])

\* MethodWriter::record_push_ty
record_push_ty(w, ty) ==
    CASE ty = "Int"    -> record_push(w, "Integer")
      [] ty = "Long"   -> record_push(w, "Long")
      [] ty = "Float"  -> record_push(w, "Float")
      [] ty = "Double" -> record_push(w, "Double")
      [] OTHER         -> record_push(w, "Object")

\* MethodWriter::record_pop: pop().unwrap() panics on the empty stack;
\* ret is the type popped
record_pop(w) ==
    IF Panicked(w) THEN w
    ELSE IF w.frame.stack.list = <<>>
         THEN Panic(w, "record_pop: unwrap on None")
         ELSE [w EXCEPT !.frame.stack = vtl_pop(w.frame.stack),
                        !.ret = w.frame.stack.list[Len(w.frame.stack.list)]]

RECURSIVE record_pops(_, _)
\* desc.0.iter().for_each(|_| { self.record_pop(); })
record_pops(w, n) == IF n = 0 THEN w ELSE record_pops(record_pop(w), n - 1)

\* MethodWriter::emit_opcode_referencing_local_var
emit_opcode_referencing_local_var(w, opcode, index) ==
    IF index <= 255
    THEN write_u8(write_u8(w, opcode), index)
    ELSE write_u16(write_u8(write_u8(w, 196), opcode), index)

\* MethodWriter::emit_load_store_inner
emit_load_store_inner(w, shorthand, long_form, index) ==
    IF index \in 0..3
    THEN write_u8(w, shorthand + index)
    ELSE emit_opcode_referencing_local_var(w, long_form, index)

\* MethodWriter::emit_load
emit_load(w, ty, index) ==
    record_push_ty(
        CASE ty = "Int"    -> emit_load_store_inner(w, 26, 21, index)
          [] ty = "Long"   -> emit_load_store_inner(w, 30, 22, index)
          [] ty = "Float"  -> emit_load_store_inner(w, 34, 23, index)
          [] ty = "Double" -> emit_load_store_inner(w, 38, 24, index)
          [] OTHER         -> emit_load_store_inner(w, 42, 25, index),
        ty)

\* MethodWriter::emit_store
emit_store(w, ty, index) ==
    record_pop(
        CASE ty = "Int"    -> emit_load_store_inner(w, 59, 54, index)
          [] ty = "Long"   -> emit_load_store_inner(w, 63, 55, index)
          [] ty = "Float"  -> emit_load_store_inner(w, 67, 56, index)
          [] ty = "Double" -> emit_load_store_inner(w, 71, 57, index)
          [] OTHER         -> emit_load_store_inner(w, 75, 64, index))

\* self.class_writer.constant_pool.int(integer): the pool after, and the ref
pool_int(w, i) ==
    IF Panicked(w) THEN w
    ELSE Let(int(w.pool, i), LAMBDA r : [w EXCEPT !.pool = r.pool, !.ret = r.ref])

\* MethodWriter::emit_constant_int
emit_constant_int(w, integer) ==
    Let(pool_int(w, integer), LAMBDA p :
        record_push(IF p.ret <= 255
                    THEN write_u8(write_u8(p, 18), p.ret)
                    ELSE write_u16(write_u8(p, 19), p.ret),
                    "Integer"))

\* MethodWriter::emit_i2l
emit_i2l(w) == write_u8(record_push(record_pop(w), "Long"), 133)

\* MethodWriter::emit_constant_long, of a value that fits an i32 (else todo!())
emit_constant_long(w, long) ==
    IF long >= -2147483647 - 1 /\ long <= 2147483647
    THEN emit_i2l(emit_constant_int(w, long))
    ELSE Panic(w, "todo: emit_constant_long")

\* MethodWriter::emit_return; ty is "Void" for None
emit_return(w, ty) ==
    Let(IF ty # "Void" THEN record_pop(w) ELSE w, LAMBDA p :
        CASE ty = "Int"       -> write_u8(p, 172)
          [] ty = "Long"      -> write_u8(p, 173)
          [] ty = "Float"     -> write_u8(p, 174)
          [] ty = "Double"    -> write_u8(p, 175)
          [] ty = "Reference" -> write_u8(p, 176)
          [] OTHER            -> write_u8(p, 177))

\* MethodWriter::emit_iinc
emit_iinc(w, local_variable, constant) ==
    IF local_variable <= 255 /\ constant >= -128 /\ constant <= 127
    THEN write_i8(write_u8(write_u8(w, 132), local_variable), constant)
    ELSE write_i16(write_u16(write_u8(write_u8(w, 196), 132), local_variable), constant)

\* MethodWriter::emit_dup
emit_dup(w) ==
    Let(record_pop(write_u8(w, 89)), LAMBDA p :
        record_push(record_push(p, p.ret), p.ret))

\* MethodWriter::emit_add: every type but Int is todo!()
emit_add(w, ty) ==
    IF ty # "Int" THEN Panic(w, "todo: emit_add")
    ELSE record_push_ty(record_pop(record_pop(write_u8(w, 96))), ty)

\* MethodWriter::emit_mul: every type but Int is todo!()
emit_mul(w, ty) ==
    IF ty # "Int" THEN Panic(w, "todo: emit_mul")
    ELSE record_push_ty(record_pop(record_pop(write_u8(w, 104))), ty)

\* MethodWriter::current_location
current_location(w) == w.wpos

\* InstructionTarget
InstructionTarget(i, j) == [instruction_location |-> i, jump_location |-> j]

\* The operand a branch emitter writes before its target is known: 0xFEFE
Placeholder == 65278

\* The shared tail of emit_goto, emit_if_icmp and emit_if: the opcode, the
\* placeholder, and the InstructionTarget returned
emit_branch(w, opcode) ==
    IF Panicked(w) THEN w
    ELSE Let(write_u8(w, opcode), LAMBDA o :
         Let(InstructionTarget(current_location(w), o.wpos), LAMBDA t :
         Let(write_u16(o, Placeholder), LAMBDA c :
             [c EXCEPT !.ret = t, !.targets = Append(c.targets, t)])))

\* MethodWriter::emit_goto
emit_goto(w) == emit_branch(w, 167)

\* A variant of ComparisonTypeCode that numbers the kinds in declaration order
ComparisonTypeCode_declared(ty) ==
    CASE ty = "Equal" -> 0
      [] ty = "NotEqual" -> 1
      [] ty = "LessThan" -> 2
      [] ty = "LessThanEqual" -> 3
      [] ty = "GreaterThan" -> 4
      [] ty = "GreaterThanEqual" -> 5

\* ComparisonType as u8
ComparisonTypeCode(ty) ==
    CASE ty = "Equal" -> 0
      [] ty = "NotEqual" -> 1
      [] ty = "LessThan" -> 2
      [] ty = "LessThanEqual" -> 5
      [] ty = "GreaterThan" -> 4
      [] ty = "GreaterThanEqual" -> 3

\* MethodWriter::emit_if_icmp
emit_if_icmp(w, ty) == emit_branch(record_pop(record_pop(w)), 159 + ComparisonTypeCode(ty))

\* MethodWriter::emit_if
emit_if(w, ty) == emit_branch(record_pop(w), 153 + ComparisonTypeCode(ty))

\* self.class_writer.constant_pool.methodref(..): the pool after, and the ref
pool_methodref(w, cls, name, desc) ==
    IF Panicked(w) THEN w
    ELSE Let(methodref(w.pool, cls, name, MethodDescriptorToString(desc)), LAMBDA r :
             [w EXCEPT !.pool = r.pool, !.ret = r.ref])

\* self.class_writer.constant_pool.interfacemethodref(..)
pool_interfacemethodref(w, cls, name, desc) ==
    IF Panicked(w) THEN w
    ELSE Let(interfacemethodref(w.pool, cls, name, MethodDescriptorToString(desc)), LAMBDA r :
             [w EXCEPT !.pool = r.pool, !.ret = r.ref])

\* The return type of a descriptor is pushed when there is one
push_return(w, desc) ==
    IF desc.ret.k # "Void" THEN record_push_ty(w, JavaTypeOfDescriptor(desc.ret)) ELSE w

\* History: the invoke written at `location` popped the values between the
\* frames of `before` and `popped`
invoked(w, before, popped, opcode, name, desc) ==
    IF Panicked(w) THEN w
    ELSE [w EXCEPT !.invokes = Append(@,
             [opcode |-> opcode, location |-> before.wpos, name |-> name, desc |-> desc,
              consumed |-> Len(before.frame.stack.list) - Len(popped.frame.stack.list)])]

\* The body of emit_invokestatic, emit_invokevirtual and emit_invokespecial
\* after the pops
emit_invoke_popped(w, popped, opcode, cls, name, desc) ==
    Let(pool_methodref(push_return(popped, desc), cls, name, desc), LAMBDA m :
        invoked(write_u16(write_u8(m, opcode), m.ret), w, popped, opcode, name, desc))

\* MethodWriter::emit_invokestatic
emit_invokestatic(w, cls, name, desc) ==
    emit_invoke_popped(w, record_pops(w, Len(desc.params)), 184, cls, name, desc)

\* A variant of emit_invokevirtual that does not pop the receiver
emit_invokevirtual_noreceiver(w, cls, name, desc) ==
    emit_invoke_popped(w, record_pops(w, Len(desc.params)), 182, cls, name, desc)

\* MethodWriter::emit_invokevirtual
emit_invokevirtual(w, cls, name, desc) ==
    emit_invoke_popped(w, record_pops(record_pop(w), Len(desc.params)), 182, cls, name, desc)

\* MethodWriter::emit_invokespecial
emit_invokespecial(w, cls, name, desc) ==
    emit_invoke_popped(w, record_pops(record_pop(w), Len(desc.params)), 183, cls, name, desc)

\* A variant of emit_invokeinterface that does not pop "this"
emit_invokeinterface_nothis(w, cls, name, desc) ==
    Let(vtl_len(w.frame.stack), LAMBDA stack_s :
    Let(record_pops(w, Len(desc.params)), LAMBDA popped :
    Let((stack_s - vtl_len(popped.frame.stack)) % 256, LAMBDA arg_count :
    Let(pool_interfacemethodref(push_return(popped, desc), cls, name, desc), LAMBDA m :
        invoked(write_u8(write_u8(write_u16(write_u8(m, 185), m.ret), arg_count), 0),
                w, popped, 185, name, desc)))))

\* MethodWriter::emit_invokeinterface
emit_invokeinterface(w, cls, name, desc) ==
    Let(vtl_len(w.frame.stack), LAMBDA stack_s :
    Let(record_pops(record_pop(w), Len(desc.params)), LAMBDA popped :
    Let((stack_s - vtl_len(popped.frame.stack)) % 256, LAMBDA arg_count :
    Let(pool_interfacemethodref(push_return(popped, desc), cls, name, desc), LAMBDA m :
        invoked(write_u8(write_u8(write_u16(write_u8(m, 185), m.ret), arg_count), 0),
                w, popped, 185, name, desc)))))

\* MethodWriter::emit_getstatic
emit_getstatic(w, cls, field, ty) ==
    IF Panicked(w) THEN w
    ELSE Let(fieldref(w.pool, cls, field, DescriptorEntryToString(ty)), LAMBDA r :
             record_push_ty(write_u16(write_u8([w EXCEPT !.pool = r.pool], 178), r.ref),
                            JavaTypeOfDescriptor(ty)))

\* MethodWriter::emit_new
emit_new(w, cls) ==
    IF Panicked(w) THEN w
    ELSE Let(class(w.pool, cls), LAMBDA r :
             write_u16(write_u8([record_push(w, "Object") EXCEPT !.pool = r.pool], 187),
                       r.ref))

\* MethodWriter::set_target.
\* `target.0 - target_index.instruction_location.0` is a subtraction on usize:
\* below zero it panics in a build that checks integer overflow and wraps in
\* one that does not, and `offset as u16` keeps the low 16 bits.
set_target(w, target_index, target) ==
    IF Panicked(w) THEN w
    ELSE IF target < target_index.instruction_location /\ w.oc
         THEN Panic(w, "set_target: attempt to subtract with overflow")
         ELSE Let((target - target_index.instruction_location) % U16, LAMBDA offset :
              Let(write_u16([w EXCEPT !.wpos = target_index.jump_location], offset), LAMBDA c :
                  [c EXCEPT !.wpos = w.wpos,
                            !.patched = Put(c.patched, target_index.jump_location, target)]))

\* MethodWriter::get_current_stackframe
get_current_stackframe(w) == w.frame

\* A variant of set_current_stackframe that keeps the frame the writer has
set_current_stackframe_keep(w, frame) == w

\* MethodWriter::set_current_stackframe
set_current_stackframe(w, frame) == IF Panicked(w) THEN w ELSE [w EXCEPT !.frame = frame]

\* A variant of record_stackframe that records nothing
record_stackframe_skip(w, loc, frame) == w

\* MethodWriter::record_stackframe
record_stackframe(w, loc, frame) ==
    IF Panicked(w) THEN w
    ELSE [w EXCEPT !.stackmaptable = Put(w.stackmaptable, loc, frame)]

\* ClassFileWriter::write_classfile: the constant pool of the new class
write_classfile(this_class, super_class) ==
    class(class(<<>>, this_class).pool, super_class).pool

\* ClassFileWriter::write_method: the writer of a new method
write_method(pool, name, desc, oc) ==
    Let(calculate_initial_stackframe(desc), LAMBDA initial_frame :
    [code |-> <<>>, wpos |-> 0,
     frame |-> initial_frame,
     max_stack_size |-> vtl_len(initial_frame.stack),
     stackmaptable |-> <<>>,
     pool |-> utf8(utf8(pool, name).pool, MethodDescriptorToString(desc)).pool,
     panic |-> "", ret |-> 0, oc |-> oc,
     targets |-> <<>>, patched |-> <<>>, invokes |-> <<>>])

-----------------------------------------------------------------------------
(* The SSA translator: src/src/lib.rs                                       *)
(* The context `e` is a record of the FunctionTranslationContext's fields:  *)
(*   w               java_method, the MethodWriter                          *)
(*   params          the types of the function's parameters, by index       *)
(*   instrs          the function's instructions, in program order          *)
(*   next_slot, ssa_values                                                  *)
(*   stack_pointer, dirty   memory_allocation_info (<<>> is None)           *)
(*   already_written, to_write   basic_block_tracker                        *)
(*   ret             the value the call just made returned                  *)
(* Once the compilation has panicked no operator changes the context.       *)

\* IR values: a parameter (i is its index), the result of an instruction (i is
\* the instruction's position in the function) or an integer constant (i is
\* its value)
Param(i, ty)    == [k |-> "param", i |-> i, ty |-> ty]
Ssa(i, ty)      == [k |-> "ssa", i |-> i, ty |-> ty]
ConstInt(i, ty) == [k |-> "const", i |-> i, ty |-> ty]

\* An IR instruction: opcode, result type, value operands, basic-block
\* operands, the predicate of an icmp
Instr(op, ty, ops, dests, pred) ==
    [op |-> op, ty |-> ty, ops |-> ops, dests |-> dests, pred |-> pred]

\* InstructionValue::get_num_operands
get_num_operands(v) == Len(v.ops) + Len(v.dests)

\* IntType::get_bit_width
BitWidth(ty) ==
    CASE ty = "i1"  -> 1
      [] ty = "i32" -> 32
      [] ty = "i64" -> 64

\* get_int_representation
get_int_representation(ty) ==
    IF BitWidth(ty) <= 32 THEN "JavaInt"
    ELSE IF BitWidth(ty) <= 64 THEN "JavaLong"
    ELSE "BigInteger"

\* get_java_type_or_none, "Void" for None
get_java_type_or_none(ty) ==
    CASE ty \in {"i1", "i32", "i64"} ->
            (CASE get_int_representation(ty) = "JavaInt"  -> "Int"
               [] get_int_representation(ty) = "JavaLong" -> "Long"
               [] OTHER -> "Reference")
      [] ty = "ptr" -> "Reference"
      [] ty \in {"float", "double"} -> "Float"
      [] OTHER -> "Void"

\* get_java_type
get_java_type(ty) == get_java_type_or_none(ty)

\* get_descriptor_entry, for a pointer outside the Java object address space
get_descriptor_entry(ty) ==
    CASE ty = "ptr" -> DClass("java/lang/Object")
      [] ty = "float"  -> DFloat
      [] ty = "double" -> DDouble
      [] BitWidth(ty) = 1   -> DBoolean
      [] BitWidth(ty) <= 8  -> DByte
      [] BitWidth(ty) <= 16 -> DShort
      [] BitWidth(ty) <= 32 -> DInt
      [] OTHER -> DLong

\* get_descriptor
get_descriptor(param_tys, ret) ==
    MethodDescriptor([i \in 1..Len(param_tys) |-> get_descriptor_entry(param_tys[i])],
                     IF ret = "void" THEN DVoid ELSE get_descriptor_entry(ret))

\* get_descriptor with `nothis`: the first parameter is skipped
get_descriptor_nothis(param_tys, ret, nothis) ==
    get_descriptor(IF nothis /\ param_tys # <<>> THEN Tail(param_tys) ELSE param_tys, ret)

\* A Call instruction: the operands without the function pointer, and the
\* callee, which is the record of
\*   intrinsic     what get_instrinsic_handler gives for its name:
\*                 "none", "nop" (llvm.lifetime.*) or "todo" (any other llvm.*)
\*   special_new   is_special_new_function: "" for None, else the class
\*   loc           get_java_location: class, name, ty
\*   params, ret   the types of the function
CallInstr(ty, ops, callee) ==
    [op |-> "Call", ty |-> ty, ops |-> ops, dests |-> <<>>, pred |-> "", callee |-> callee]

\* An alloca of elements of type elem; ops is <<>> or holds the element count
AllocaInstr(elem, ops) ==
    [op |-> "Alloca", ty |-> "ptr", ops |-> ops, dests |-> <<>>, pred |-> "", elem |-> elem]

\* TargetData::get_abi_size under a 64-bit data layout
get_abi_size(ty) ==
    CASE ty = "i1"  -> 1
      [] ty \in {"i32", "float"} -> 4
      [] OTHER -> 8

\* FunctionTranslationContext::new
NewContext(param_tys, w) ==
    [w |-> w, params |-> param_tys, instrs |-> <<>>,
     next_slot |-> Len(param_tys), ssa_values |-> <<>>,
     stack_pointer |-> <<>>, dirty |-> FALSE,
     already_written |-> <<>>, to_write |-> <<>>, ret |-> 0]

\* e.java_method.<emitter>(..): the context with its writer replaced
W(e, w) == [e EXCEPT !.w = w]

\* FunctionTranslationContext::get_next_slot
get_next_slot(e) ==
    IF Panicked(e.w) THEN e
    ELSE [e EXCEPT !.next_slot = e.next_slot + 1, !.ret = e.next_slot]

RECURSIVE set_targets(_, _, _)
\* for target in to_write { self.java_method.set_target(target, block_location) }
set_targets(w, ts, loc) ==
    IF ts = <<>> THEN w
    ELSE set_targets(set_target(w, Head(ts), loc), Tail(ts), loc)

\* A variant of record_start_of_basic_block that forgets the queued targets
record_start_of_basic_block_forget(e, block) ==
    IF Panicked(e.w) THEN e
    ELSE Let(current_location(e.w), LAMBDA block_location :
             [e EXCEPT !.to_write = Remove(e.to_write, block),
                       !.already_written = Put(e.already_written, block, block_location),
                       !.w = record_stackframe(e.w, block_location,
                                               get_current_stackframe(e.w))])

\* FunctionTranslationContext::record_start_of_basic_block
record_start_of_basic_block(e, block) ==
    IF Panicked(e.w) THEN e
    ELSE Let(current_location(e.w), LAMBDA block_location :
         Let(IF block \in DOMAIN e.to_write
             THEN set_targets(e.w, e.to_write[block], block_location)
             ELSE e.w, LAMBDA w1 :
             IF Panicked(w1) THEN [e EXCEPT !.w = w1, !.to_write = Remove(e.to_write, block)]
             ELSE [e EXCEPT !.to_write = Remove(e.to_write, block),
                            !.already_written = Put(e.already_written, block, block_location),
                            !.w = record_stackframe(w1, block_location,
                                                    get_current_stackframe(w1))]))

\* FunctionTranslationContext::set_target_to_basic_block
set_target_to_basic_block(e, target_ref, target) ==
    IF Panicked(e.w) THEN e
    ELSE IF target \in DOMAIN e.already_written
         THEN W(e, set_target(e.w, target_ref, e.already_written[target]))
         ELSE [e EXCEPT !.to_write =
                  Put(e.to_write, target,
                      Append(IF target \in DOMAIN e.to_write THEN e.to_write[target] ELSE <<>>,
                             target_ref))]

-----------------------------------------------------------------------------
(* The memory strategy: src/src/memory.rs *)

\* java_support_lib::MEMORYSEGMENTSTACK.name
MEMORYSEGMENTSTACK == "MemorySegmentStack"

MemorySegment == "java/lang/foreign/MemorySegment"

\* MemorySegmentEmitter::get_stack_pointer_local: ret is the pair of locals
get_stack_pointer_local(e) ==
    IF Panicked(e.w) THEN e
    ELSE IF e.stack_pointer # <<>> THEN [e EXCEPT !.ret = e.stack_pointer[1]]
    ELSE Let(get_next_slot(e), LAMBDA b :
         Let(get_next_slot(b), LAMBDA o :
         Let([base |-> b.ret, offset |-> o.ret], LAMBDA sp_vars :
             [o EXCEPT !.stack_pointer = <<sp_vars>>,
                       !.ret = sp_vars,
                       !.w = emit_store(
                                 emit_invokestatic(
                                     emit_store(
                                         emit_invokestatic(o.w, MEMORYSEGMENTSTACK, "getBase",
                                             MethodDescriptor(<<>>, DClass(MemorySegment))),
                                         "Reference", sp_vars.base),
                                     MEMORYSEGMENTSTACK, "getOffset",
                                     MethodDescriptor(<<>>, DInt)),
                                 "Int", sp_vars.offset)])))

\* `size as i16`: the low 16 bits, read as two's complement
AsI16(n) == IF n % U16 >= 32768 THEN (n % U16) - U16 ELSE n % U16

\* MemorySegmentEmitter::const_stack_alloc.
\* `-(size as i16)` panics on i16::MIN in a build that checks overflow and
\* yields i16::MIN in one that does not.
const_stack_alloc(e, size) ==
    Let(get_stack_pointer_local(e), LAMBDA s :
        IF Panicked(s.w) THEN s
        ELSE IF AsI16(size) = -32768 /\ s.w.oc
        THEN W(s, Panic(s.w, "attempt to negate with overflow"))
        ELSE Let(s.ret, LAMBDA sp :
             Let(emit_invokeinterface(
                     emit_i2l(
                         emit_load(
                             emit_load(
                                 emit_iinc(s.w, sp.offset,
                                           IF AsI16(size) = -32768 THEN -32768
                                           ELSE -AsI16(size)),
                                 "Reference", sp.base),
                             "Int", sp.offset)),
                     MemorySegment, "asSlice",
                     MethodDescriptor(<<DLong>>, DClass(MemorySegment))), LAMBDA w5 :
                 IF Panicked(w5) THEN W(s, w5)
                 ELSE [s EXCEPT !.w = w5, !.dirty = TRUE])))

\* value_layout: the class of the layout, the descriptor of the value and the
\* field of ValueLayout; field "todo" stands for the todo!() arm
value_layout(size, target_type) ==
    CASE size <= 8  -> [class |-> "java/lang/foreign/ValueLayout$OfByte",
                        desc |-> DByte, field |-> "JAVA_BYTE"]
      [] size <= 16 -> [class |-> "java/lang/foreign/ValueLayout$OfShort",
                        desc |-> DShort, field |-> "JAVA_SHORT"]
      [] size <= 32 /\ target_type = "Float" ->
                       [class |-> "java/lang/foreign/ValueLayout$OfFloat",
                        desc |-> DFloat, field |-> "JAVA_FLOAT"]
      [] size <= 32 -> [class |-> "java/lang/foreign/ValueLayout$OfInt",
                        desc |-> DInt, field |-> "JAVA_INT"]
      [] size <= 64 /\ target_type = "Double" ->
                       [class |-> "java/lang/foreign/ValueLayout$OfDouble",
                        desc |-> DDouble, field |-> "JAVA_DOUBLE"]
      [] size <= 64 -> [class |-> "java/lang/foreign/ValueLayout$OfLong",
                        desc |-> DLong, field |-> "JAVA_LONG"]
      [] OTHER -> [class |-> "", desc |-> DVoid, field |-> "todo"]

\* MemorySegmentEmitter::load and ::store, up to the stack_pusher: the layout
\* constant and the offset 0
emit_layout(e, vl) ==
    IF vl.field = "todo" THEN W(e, Panic(e.w, "not yet implemented"))
    ELSE W(e, emit_constant_long(
                  emit_getstatic(e.w, "java/lang/foreign/ValueLayout", vl.field,
                                 DClass(vl.class)), 0))

\* MemorySegmentEmitter::load
memory_load(e, ty) ==
    Let(value_layout(get_abi_size(ty), get_java_type(ty)), LAMBDA vl :
    Let(emit_layout(e, vl), LAMBDA c :
        W(c, emit_invokeinterface(c.w, MemorySegment, "get",
                                  MethodDescriptor(<<DClass(vl.class), DLong>>, vl.desc)))))

\* MemorySegmentEmitter::store; the stack_pusher loads the value v with L
memory_store(e, v, L(_, _)) ==
    Let(value_layout(get_abi_size(v.ty), get_java_type(v.ty)), LAMBDA vl :
    Let(L(emit_layout(e, vl), v), LAMBDA c :
        W(c, emit_invokeinterface(c.w, MemorySegment, "set",
                                  MethodDescriptor(<<DClass(vl.class), DLong, vl.desc>>,
                                                   DVoid)))))

\* MemorySegmentEmitter::pre_call
pre_call(e) ==
    IF Panicked(e.w) THEN e
    ELSE IF e.stack_pointer # <<>> /\ e.dirty
    THEN W(e, emit_invokestatic(emit_load(e.w, "Int", e.stack_pointer[1].offset),
                                MEMORYSEGMENTSTACK, "setOffset",
                                MethodDescriptor(<<DInt>>, DVoid)))
    ELSE e

-----------------------------------------------------------------------------
(* Translation of values and instructions: src/src/lib.rs *)

\* The ComparisonType translate_instruction picks for an icmp predicate
ComparisonTypeOfPredicate(pred) ==
    CASE pred = "EQ" -> "Equal"
      [] pred = "NE" -> "NotEqual"
      [] pred \in {"UGT", "SGT"} -> "GreaterThan"
      [] pred \in {"UGE", "SGE"} -> "GreaterThanEqual"
      [] pred \in {"ULT", "SLT"} -> "LessThan"
      [] pred \in {"ULE", "SLE"} -> "LessThanEqual"

\* `value as i32` of a sign-extended constant: the low 32 bits, read as two's
\* complement, computed on 16-bit halves
AsI32(n) ==
    LET lo == n % U16
        hi == (n \div U16) % U16
    IN  (IF hi >= 32768 THEN hi - U16 ELSE hi) * U16 + lo

\* translate, for a value that is not the result of an instruction
translate_constant(e, v) ==
    IF v.k = "const"
    THEN CASE get_int_representation(v.ty) = "JavaInt" ->
                W(e, emit_constant_int(e.w, AsI32(v.i)))
           [] get_int_representation(v.ty) = "JavaLong" ->
                W(e, emit_constant_long(e.w, v.i))
           [] OTHER -> W(e, Panic(e.w, "not yet implemented"))
    ELSE W(e, Panic(e.w, "not yet implemented: can't handle value"))

\* v.get_operands().for_each(|o| load_operand(o, e)), L being load; the
\* instructions that load all their operands this way have at most two
load_operands(e, ops, L(_, _)) ==
    IF Len(ops) = 0 THEN e
    ELSE IF Len(ops) = 1 THEN L(e, ops[1])
    ELSE L(L(e, ops[1]), ops[2])

\* translate_instruction, the ICmp arm
translate_icmp(e, v, L(_, _)) ==
    Let(load_operands(e, v.ops, L), LAMBDA l :
    Let(emit_if_icmp(l.w, ComparisonTypeOfPredicate(v.pred)), LAMBDA c1 :
    Let(c1.ret, LAMBDA icmp_target :
    Let(get_current_stackframe(c1), LAMBDA pre_operand_stackmap :
    Let(emit_goto(emit_constant_int(c1, 0)), LAMBDA c3 :
    Let(c3.ret, LAMBDA goto_target :
    Let(current_location(c3), LAMBDA op2 :
    Let(emit_constant_int(set_current_stackframe(c3, pre_operand_stackmap), 1), LAMBDA c5 :
    Let(get_current_stackframe(c5), LAMBDA post_operand_stackmap :
    Let(current_location(c5), LAMBDA after_select :
        IF Panicked(l.w) THEN l
        ELSE W(l, record_stackframe(
                      record_stackframe(
                          set_target(set_target(c5, icmp_target, op2),
                                     goto_target, after_select),
                          op2, pre_operand_stackmap),
                      after_select, post_operand_stackmap))))))))))))

\* translate_instruction, the Select arm
translate_select(e, v, L(_, _)) ==
    Let(L(e, v.ops[1]), LAMBDA l0 :
    Let(emit_if(l0.w, "Equal"), LAMBDA c1 :
    Let(c1.ret, LAMBDA if_target :
    Let(get_current_stackframe(c1), LAMBDA pre_operand_stackmap :
    Let(L(W(l0, c1), v.ops[2]), LAMBDA l1 :
    Let(emit_goto(l1.w), LAMBDA c3 :
    Let(c3.ret, LAMBDA goto_target :
    Let(current_location(c3), LAMBDA op2 :
    Let(L(W(l1, set_current_stackframe(c3, pre_operand_stackmap)), v.ops[3]), LAMBDA l2 :
    Let(get_current_stackframe(l2.w), LAMBDA post_operand_stackmap :
    Let(current_location(l2.w), LAMBDA after_select :
        IF Panicked(l0.w) THEN l0
        ELSE W(l2, record_stackframe(
                       record_stackframe(
                           set_target(set_target(l2.w, if_target, op2),
                                      goto_target, after_select),
                           op2, pre_operand_stackmap),
                       after_select, post_operand_stackmap)))))))))))))

\* translate_instruction, the Alloca arm
translate_alloca(e, v) ==
    IF v.ops = <<>> \/ v.ops[1].k = "const"
    THEN const_stack_alloc(e, get_abi_size(v.ty) * (IF v.ops = <<>> THEN 1 ELSE v.ops[1].i))
    ELSE W(e, Panic(e.w, "not yet implemented: Dynamic alloca size not supported yet"))

\* translate_instruction, the Br arm
translate_br(e, v) ==
    IF get_num_operands(v) = 1
    THEN Let(emit_goto(e.w), LAMBDA c :
             set_target_to_basic_block(W(e, c), c.ret, v.dests[1]))
    ELSE W(e, Panic(e.w, "not yet implemented"))

\* translate_instruction, the Call arm, of a callee that is no intrinsic and
\* no special `new`: the invoke of the location's FunctionType.
\* (FunctionType::StaticInterface is left out.)
emit_invoke(l, f) ==
    CASE f.loc.ty = "Special" ->
            W(l, emit_invokespecial(l.w, f.loc.class, f.loc.name,
                                    get_descriptor_nothis(f.params, f.ret, TRUE)))
      [] f.loc.ty = "Virtual" ->
            W(l, emit_invokevirtual(l.w, f.loc.class, f.loc.name,
                                    get_descriptor_nothis(f.params, f.ret, TRUE)))
      [] f.loc.ty = "Interface" ->
            W(l, emit_invokeinterface(l.w, f.loc.class, f.loc.name,
                                      get_descriptor_nothis(f.params, f.ret, TRUE)))
      [] f.loc.ty = "Static" ->
            W(l, emit_invokestatic(l.w, f.loc.class, f.loc.name,
                                   get_descriptor_nothis(f.params, f.ret, FALSE)))

\* translate_instruction, the Call arm
translate_call(e, v, L(_, _)) ==
    IF v.callee.intrinsic = "nop" THEN e
    ELSE IF v.callee.intrinsic = "todo" THEN W(e, Panic(e.w, "not yet implemented"))
    ELSE IF v.callee.special_new # "" THEN W(e, emit_new(e.w, v.callee.special_new))
    ELSE emit_invoke(load_operands(pre_call(e), v.ops, L), v.callee)

\* translate_instruction, the Store arm, of a pointer that is no constant:
\* operand 0 is the value, operand 1 the pointer
translate_store(e, v, L(_, _)) == memory_store(L(e, v.ops[2]), v.ops[1], L)

\* translate_instruction, the Load arm, of a pointer that is no constant
translate_load(e, v, L(_, _)) == memory_load(L(e, v.ops[1]), v.ty)

\* translate_instruction, its operands loaded by L
translate_instruction_with(e, v, L(_, _)) ==
    IF Panicked(e.w) THEN e
    ELSE CASE v.op = "Add" ->
                Let(load_operands(e, v.ops, L), LAMBDA l : W(l, emit_add(l.w, "Int")))
           [] v.op = "Mul" ->
                Let(load_operands(e, v.ops, L), LAMBDA l : W(l, emit_mul(l.w, "Int")))
           [] v.op = "Return" ->
                Let(load_operands(e, v.ops, L), LAMBDA l :
                    W(l, emit_return(l.w, IF v.ops = <<>> THEN "Void"
                                          ELSE get_java_type_or_none(v.ops[1].ty))))
           [] v.op = "Br"     -> translate_br(e, v)
           [] v.op = "ICmp"   -> translate_icmp(e, v, L)
           [] v.op = "Select" -> translate_select(e, v, L)
           [] v.op = "Alloca" -> translate_alloca(e, v)
           [] v.op = "Call"   -> translate_call(e, v, L)
           [] v.op = "Store"  -> translate_store(e, v, L)
           [] v.op = "Load"   -> translate_load(e, v, L)
           [] OTHER -> W(e, Panic(e.w, "not yet implemented"))

\* load, for the operands of an instruction that is itself translated in
\* place: a parameter from its index, a stored result from its slot, a
\* constant by translate. The functions of this model do not nest instructions
\* without a stored result more than one level deep.
load_operand_in_place(e, v) ==
    IF v.k = "param" THEN W(e, emit_load(e.w, get_java_type(v.ty), v.i))
    ELSE IF v.k = "ssa" /\ v.i \in DOMAIN e.ssa_values
    THEN W(e, emit_load(e.w, get_java_type(v.ty), e.ssa_values[v.i]))
    ELSE translate_constant(e, v)

\* load: a parameter from its index, a stored result from its slot; anything
\* else goes to translate, which translates an instruction in place
load(e, v) ==
    IF v.k = "param" THEN W(e, emit_load(e.w, get_java_type(v.ty), v.i))
    ELSE IF v.k = "ssa" /\ v.i \in DOMAIN e.ssa_values
    THEN W(e, emit_load(e.w, get_java_type(v.ty), e.ssa_values[v.i]))
    ELSE IF v.k = "ssa"
    THEN translate_instruction_with(e, e.instrs[v.i], load_operand_in_place)
    ELSE translate_constant(e, v)

\* translate_instruction
translate_instruction(e, v) == translate_instruction_with(e, v, load)

\* translate
translate(e, v) ==
    IF v.k = "ssa" THEN translate_instruction(e, e.instrs[v.i])
    ELSE translate_constant(e, v)

\* translate_and_store: v is the result of the instruction translated
translate_and_store(e, v) ==
    Let(translate(e, v), LAMBDA t :
        IF v.ty = "void" \/ Panicked(t.w) THEN t
        ELSE Let(get_next_slot(t), LAMBDA s :
                 [s EXCEPT !.w = emit_store(s.w, get_java_type(v.ty), s.ret),
                           !.ssa_values = Put(s.ssa_values, v.i, s.ret)]))

\* MethodData::serialize writes this constant as max_locals
MaxLocalsWritten == 50

\* MethodData::needs_stack_map_table
needs_stack_map_table(w) == DOMAIN w.stackmaptable # {}

\* MethodData::serialize: the fields of the Code attribute
serialize(w) ==
    [max_stack |-> w.max_stack_size % U16,
     max_locals |-> MaxLocalsWritten,
     code |-> w.code,
     stack_map_table |-> IF needs_stack_map_table(w) THEN <<w.stackmaptable>> ELSE <<>>]

\* ClassFileWriter::finalize of a class with the constant pool `pool` and the
\* methods `ws`: the pool gets the attribute names, then the methods are
\* serialized in order
finalize(pool, ws) ==
    Let(utf8(pool, "Code").pool, LAMBDA p1 :
        [pool |-> IF \E i \in DOMAIN ws : needs_stack_map_table(ws[i])
                  THEN utf8(p1, "StackMapTable").pool ELSE p1,
         methods |-> [i \in DOMAIN ws |-> serialize(ws[i])]])

-----------------------------------------------------------------------------
(* SpecPool: a caller drives the operations of one ConstantPool *)

\* The values of the variables a specification does not use
PoolIdle == lastOp = NoOp /\ lastRef = 0 /\ lenBefore = 0 /\ nOps = 0

WriterIdle ==
    /\ overflow_checks = FALSE
    /\ code = <<>> /\ wpos = 0
    /\ current_frame = [stack |-> VTList(<<>>), locals |-> VTList(<<>>)]
    /\ max_stack_size = 0 /\ stackmaptable = <<>> /\ panic = ""
    /\ targets = <<>> /\ patched = <<>> /\ invokes = <<>>

EmitIdle ==
    /\ saved_frame = <<>> /\ restored = FALSE /\ highWater = 0
    /\ lastPatch = <<>> /\ lastEmit = "" /\ lastArgs = <<>> /\ nEmits = 0

TranslatorIdle ==
    /\ params = <<>> /\ ret_ty = "void" /\ nblocks = 0 /\ instrs = <<>>
    /\ curBlock = 0 /\ pc = "idle" /\ next_slot = 0 /\ ssa_values = <<>>
    /\ stack_pointer = <<>> /\ dirty = FALSE
    /\ already_written = <<>> /\ to_write = <<>> /\ serialized = <<>>

CStrIdle == cstr = <<>> /\ pat = <<>> /\ starts = <<>>

CompileIdle ==
    /\ module = <<>> /\ panic_unwind = TRUE /\ run = 0 /\ fn_index = 0
    /\ class_plans = <<>> /\ iter_left = {} /\ archive = <<>>
    /\ out_buf = <<>> /\ out_file = <<>> /\ first_archive = <<>> /\ cpc = "idle"

PoolInit ==
    /\ entries = <<>>
    /\ PoolIdle
    /\ WriterIdle
    /\ EmitIdle
    /\ TranslatorIdle
    /\ CompileIdle
    /\ CStrIdle

DoCall(c) ==
    /\ nOps < MaxOps
    /\ entries' = Apply(c, entries).pool
    /\ lastRef' = Apply(c, entries).ref
    /\ lastOp' = c
    /\ lenBefore' = Len(entries)
    /\ nOps' = nOps + 1
    /\ UNCHANGED <<overflow_checks, mwVars, emitVars, trVars, compVars, cstrVars>>

Utf8Op  == \E s \in Strs : DoCall(Call("utf8", s, "", "", 0))
ClassOp == \E s \in Strs : DoCall(Call("class", s, "", "", 0))
IntOp   == \E i \in PoolInts : DoCall(Call("int", "", "", "", i))
NameAndTypeOp == \E n \in Strs, d \in Descs : DoCall(Call("name_and_type", n, d, "", 0))
FieldRefOp  == \E c, n \in Strs, d \in Descs : DoCall(Call("fieldref", c, n, d, 0))
MethodRefOp == \E c, n \in Strs, d \in Descs : DoCall(Call("methodref", c, n, d, 0))
InterfaceMethodRefOp ==
    \E c, n \in Strs, d \in Descs : DoCall(Call("interfacemethodref", c, n, d, 0))

PoolNext ==
    \/ Utf8Op
    \/ ClassOp
    \/ IntOp
    \/ NameAndTypeOp
    \/ FieldRefOp
    \/ MethodRefOp
    \/ InterfaceMethodRefOp

SpecPool == PoolInit /\ [][PoolNext]_vars

-----------------------------------------------------------------------------
(* SpecPoolLimit: the operations of a ConstantPool that is almost full *)

\* How many entries the pool holds at the start
FullPools == {65532, 65533, 65534}

PoolLimitInit ==
    /\ \E n \in FullPools : entries = <<EFill(n)>>
    /\ overflow_checks \in BOOLEAN
    /\ PoolIdle
    /\ code = <<>> /\ wpos = 0
    /\ current_frame = [stack |-> VTList(<<>>), locals |-> VTList(<<>>)]
    /\ max_stack_size = 0 /\ stackmaptable = <<>> /\ panic = ""
    /\ targets = <<>> /\ patched = <<>> /\ invokes = <<>>
    /\ EmitIdle
    /\ TranslatorIdle
    /\ CompileIdle
    /\ CStrIdle

\* One call that computes `index as u16 + 1` once, the entry already inserted:
\* the build that checks overflow panics when the sum does not fit
LimitCalled(c, pool, index) ==
    /\ nOps < MaxOps
    /\ panic = ""
    /\ entries' = pool
    /\ lastOp' = c
    /\ lenBefore' = len(entries)
    /\ nOps' = nOps + 1
    /\ IF AddOverflows(index) /\ overflow_checks
       THEN panic' = "attempt to add with overflow" /\ lastRef' = 0
       ELSE panic' = "" /\ lastRef' = AsRef(index)
    /\ UNCHANGED <<overflow_checks, code, wpos, current_frame, max_stack_size, stackmaptable,
                   targets, patched, invokes, emitVars, trVars, compVars, cstrVars>>

LimitUtf8 ==
    /\ panic = ""
    /\ \E s \in Strs :
        LimitCalled(Call("utf8", s, "", "", 0),
                    insert_full(entries, EUtf8(s)).pool, insert_full(entries, EUtf8(s)).index)

LimitInt ==
    /\ panic = ""
    /\ \E i \in PoolInts :
        LimitCalled(Call("int", "", "", "", i),
                    insert_full(entries, EInt(i)).pool, insert_full(entries, EInt(i)).index)

\* ConstantPool::serialize, as far as the count: lastRef is the count written
LimitSerialize ==
    /\ panic = ""
    /\ LimitCalled(Call("serialize", "", "", "", 0), entries, len(entries))

PoolLimitNext ==
    \/ LimitUtf8
    \/ LimitInt
    \/ LimitSerialize

SpecPoolLimit == PoolLimitInit /\ [][PoolLimitNext]_vars

-----------------------------------------------------------------------------
(* SpecEmit: a caller drives the emitters of one MethodWriter *)

\* The writer of the state
MW ==
    [code |-> code, wpos |-> wpos, frame |-> current_frame,
     max_stack_size |-> max_stack_size, stackmaptable |-> stackmaptable,
     pool |-> entries, panic |-> panic, ret |-> 0, oc |-> overflow_checks,
     targets |-> targets, patched |-> patched, invokes |-> invokes]

SetMW(w) ==
    /\ code' = w.code
    /\ wpos' = w.wpos
    /\ current_frame' = w.frame
    /\ max_stack_size' = w.max_stack_size
    /\ stackmaptable' = w.stackmaptable
    /\ entries' = w.pool
    /\ panic' = w.panic
    /\ targets' = w.targets
    /\ patched' = w.patched
    /\ invokes' = w.invokes

\* The descriptors of the methods written
EmitDescriptors == {MethodDescriptor(<<DInt, DLong>>, DInt)}

\* MethodData::serialize: `self.max_stack_size as u16`
SerializedMaxStack(m) == m % U16

EmitInit ==
    /\ overflow_checks \in BOOLEAN
    /\ \E d \in EmitDescriptors :
        LET w == write_method(<<>>, "m", d, overflow_checks)
        IN  /\ code = w.code /\ wpos = w.wpos /\ current_frame = w.frame
            /\ max_stack_size = w.max_stack_size /\ stackmaptable = w.stackmaptable
            /\ entries = w.pool /\ panic = w.panic
            /\ targets = w.targets /\ patched = w.patched /\ invokes = w.invokes
    /\ PoolIdle
    /\ EmitIdle
    /\ TranslatorIdle
    /\ CompileIdle
    /\ CStrIdle

Max(a, b) == IF a >= b THEN a ELSE b

\* One emitter call that is not set_target, of at most max calls
EmittedWithin(name, args, w, max) ==
    /\ nEmits < max
    /\ panic = ""
    /\ SetMW(w)
    /\ highWater' = Max(highWater, SlotsOf(w.frame.stack.list))
    /\ lastPatch' = <<>>
    /\ lastEmit' = name
    /\ lastArgs' = args
    /\ nEmits' = nEmits + 1
    /\ UNCHANGED <<poolVars, overflow_checks, trVars, compVars, cstrVars>>

Emitted(name, w) == EmittedWithin(name, <<>>, w, MaxEmits)

EmitLoad == \E ty \in {"Int", "Long"} :
    Emitted("emit_load", emit_load(MW, ty, 1)) /\ UNCHANGED <<saved_frame, restored>>

EmitStore ==
    Emitted("emit_store", emit_store(MW, "Int", 1)) /\ UNCHANGED <<saved_frame, restored>>

EmitConstantInt ==
    Emitted("emit_constant_int", emit_constant_int(MW, 7))
    /\ UNCHANGED <<saved_frame, restored>>

EmitI2L == Emitted("emit_i2l", emit_i2l(MW)) /\ UNCHANGED <<saved_frame, restored>>

EmitDup == Emitted("emit_dup", emit_dup(MW)) /\ UNCHANGED <<saved_frame, restored>>

EmitInvokestatic ==
    Emitted("emit_invokestatic", emit_invokestatic(MW, "a", "f", MethodDescriptor(<<DInt>>, DLong)))
    /\ UNCHANGED <<saved_frame, restored>>

EmitGoto == Emitted("emit_goto", emit_goto(MW)) /\ UNCHANGED <<saved_frame, restored>>

EmitIf == Emitted("emit_if", emit_if(MW, "Equal")) /\ UNCHANGED <<saved_frame, restored>>

EmitIfIcmp ==
    Emitted("emit_if_icmp", emit_if_icmp(MW, "LessThan"))
    /\ UNCHANGED <<saved_frame, restored>>

GetCurrentStackframe ==
    /\ Emitted("get_current_stackframe", MW)
    /\ saved_frame' = <<get_current_stackframe(MW)>>
    /\ UNCHANGED restored

SetCurrentStackframe ==
    /\ saved_frame # <<>>
    /\ Emitted("set_current_stackframe", set_current_stackframe(MW, saved_frame[1]))
    /\ restored' = TRUE
    /\ UNCHANGED saved_frame

\* set_target consumes the InstructionTarget: each one is patched once
SetTarget == \E k \in 1..Len(targets), loc \in 0..Len(code) :
    /\ nEmits < MaxEmits
    /\ panic = ""
    /\ targets[k].jump_location \notin DOMAIN patched
    /\ SetMW(set_target(MW, targets[k], loc))
    /\ lastPatch' = <<[target |-> targets[k], loc |-> loc, code |-> code, wpos |-> wpos]>>
    /\ lastEmit' = "set_target"
    /\ lastArgs' = <<>>
    /\ nEmits' = nEmits + 1
    /\ UNCHANGED <<poolVars, overflow_checks, saved_frame, restored, highWater, trVars, compVars, cstrVars>>

EmitNext ==
    \/ EmitLoad
    \/ EmitStore
    \/ EmitConstantInt
    \/ EmitI2L
    \/ EmitDup
    \/ EmitInvokestatic
    \/ EmitGoto
    \/ EmitIf
    \/ EmitIfIcmp
    \/ GetCurrentStackframe
    \/ SetCurrentStackframe
    \/ SetTarget

SpecEmit == EmitInit /\ [][EmitNext]_vars

-----------------------------------------------------------------------------
(* SpecForms: a caller asks for loads, stores and integer constants *)

MaxFormEmits == 2

JavaTypes == {"Int", "Long", "Float", "Double", "Reference"}

\* Local variable indices around the borders of the three forms
Slots == {0, 3, 4, 255, 256, 65535}

\* Integers with and without a one-byte push opcode
ConstantInts == {-1, 0, 5, 6, 70000}

\* The arguments of the call (a kind or "", and an integer), and ByteBuffer's
\* position and the depth of the tracked stack before it
Args(a, b) ==
    <<[a |-> a, b |-> b, at |-> wpos, depth |-> Len(current_frame.stack.list)]>>

EmitLoadAt ==
    /\ panic = ""
    /\ \E ty \in JavaTypes, index \in Slots :
        EmittedWithin("emit_load", Args(ty, index), emit_load(MW, ty, index), MaxFormEmits)
    /\ UNCHANGED <<saved_frame, restored>>

EmitStoreAt ==
    /\ panic = ""
    /\ \E ty \in JavaTypes, index \in Slots :
        EmittedWithin("emit_store", Args(ty, index), emit_store(MW, ty, index), MaxFormEmits)
    /\ UNCHANGED <<saved_frame, restored>>

EmitConstantIntOf ==
    /\ panic = ""
    /\ \E n \in ConstantInts :
        EmittedWithin("emit_constant_int", Args("", n), emit_constant_int(MW, n), MaxFormEmits)
    /\ UNCHANGED <<saved_frame, restored>>

FormsNext ==
    \/ EmitLoadAt
    \/ EmitStoreAt
    \/ EmitConstantIntOf

SpecForms == EmitInit /\ [][FormsNext]_vars

-----------------------------------------------------------------------------
(* Spec: translate_method on one function, into one class, then finalize *)

\* The signatures of the functions translated
Signatures ==
    {[params |-> <<>>, ret |-> "void"],
     [params |-> <<"i32">>, ret |-> "i32"],
     [params |-> <<"i64", "i32">>, ret |-> "i32"]}

\* The predicates of the icmp instructions translated
Predicates == {"EQ", "SLT"}

\* The FunctionTranslationContext held in the variables
E ==
    [w |-> MW, params |-> params, instrs |-> instrs,
     next_slot |-> next_slot, ssa_values |-> ssa_values,
     stack_pointer |-> stack_pointer, dirty |-> dirty,
     already_written |-> already_written, to_write |-> to_write, ret |-> 0]

SetE(e) ==
    /\ SetMW(e.w)
    /\ params' = e.params
    /\ instrs' = e.instrs
    /\ next_slot' = e.next_slot
    /\ ssa_values' = e.ssa_values
    /\ stack_pointer' = e.stack_pointer
    /\ dirty' = e.dirty
    /\ already_written' = e.already_written
    /\ to_write' = e.to_write

\* compile: write_classfile, write_method, FunctionTranslationContext::new
Init ==
    /\ overflow_checks \in BOOLEAN
    /\ \E sig \in Signatures, n \in 1..MaxBlocks :
        LET pool0 == write_classfile("C", "java/lang/Object")
            w == write_method(pool0, "f", get_descriptor(sig.params, sig.ret),
                              overflow_checks)
            e == NewContext(sig.params, w)
        IN  /\ code = w.code /\ wpos = w.wpos /\ current_frame = w.frame
            /\ max_stack_size = w.max_stack_size /\ stackmaptable = w.stackmaptable
            /\ entries = w.pool /\ panic = w.panic
            /\ targets = w.targets /\ patched = w.patched /\ invokes = w.invokes
            /\ params = e.params /\ instrs = e.instrs
            /\ next_slot = e.next_slot /\ ssa_values = e.ssa_values
            /\ stack_pointer = e.stack_pointer /\ dirty = e.dirty
            /\ already_written = e.already_written /\ to_write = e.to_write
            /\ ret_ty = sig.ret /\ nblocks = n
    /\ curBlock = 1 /\ pc = "block_start" /\ serialized = <<>>
    /\ PoolIdle
    /\ EmitIdle
    /\ CompileIdle
    /\ CStrIdle

\* The values an instruction at the current position can use: parameters,
\* results already stored, and one constant of each integer type
ParamsOf(ty) == {Param(i - 1, ty) : i \in {j \in 1..Len(params) : params[j] = ty}}
ResultsOf(ty) == {Ssa(i, ty) : i \in {j \in DOMAIN ssa_values : instrs[j].ty = ty}}
Values(ty) == ParamsOf(ty) \cup ResultsOf(ty) \cup {ConstInt(5, ty)}

\* The variables after a step of translate_method that leaves the context e
Translated(e, terminator) ==
    /\ SetE(e)
    /\ IF Panicked(e.w) THEN pc' = "aborted" /\ curBlock' = curBlock
       ELSE IF pc = "block_start" \/ ~terminator THEN pc' = "instrs" /\ curBlock' = curBlock
       ELSE IF curBlock < nblocks THEN pc' = "block_start" /\ curBlock' = curBlock + 1
       ELSE pc' = "done" /\ curBlock' = curBlock
    /\ UNCHANGED <<ret_ty, nblocks, serialized, poolVars, overflow_checks, emitVars, compVars, cstrVars>>

\* translate_method: `translator.record_start_of_basic_block(&block)`
RecordStartOfBasicBlock ==
    /\ pc = "block_start"
    /\ Translated(record_start_of_basic_block(E, curBlock), FALSE)

\* translate_method: `translate_and_store(instr.as_any_value_enum(), ..)` on
\* the next instruction v of the current block
StepWithin(v, terminator, max) ==
    /\ pc = "instrs"
    /\ Len(instrs) + (IF terminator THEN 0 ELSE 1) + (nblocks - curBlock + 1) <= max
    /\ Translated(translate_and_store([E EXCEPT !.instrs = Append(instrs, v)],
                                      Ssa(Len(instrs) + 1, v.ty)),
                  terminator)

Step(v, terminator) == StepWithin(v, terminator, MaxInstrs)

TranslateAdd ==
    \E ty \in {"i32", "i64"} : \E a \in Values(ty) :
        Step(Instr("Add", ty, <<a, ConstInt(5, ty)>>, <<>>, ""), FALSE)

TranslateMul ==
    \E a \in Values("i32") : Step(Instr("Mul", "i32", <<a, a>>, <<>>, ""), FALSE)

TranslateICmp ==
    \E pred \in Predicates : \E a \in Values("i32") :
        Step(Instr("ICmp", "i1", <<a, ConstInt(5, "i32")>>, <<>>, pred), FALSE)

TranslateSelect ==
    \E c \in ResultsOf("i1") : \E a \in ParamsOf("i32") \cup ResultsOf("i32") :
        Step(Instr("Select", "i32", <<c, a, ConstInt(5, "i32")>>, <<>>, ""), FALSE)

TranslateAlloca ==
    \E n \in {<<ConstInt(1, "i32")>>, <<ConstInt(32768, "i32")>>} \cup
             {<<a>> : a \in ParamsOf("i32")} :
        Step(Instr("Alloca", "ptr", n, <<>>, ""), FALSE)

\* An opcode translate_instruction has no arm for
TranslateUnsupported ==
    Step(Instr("Sub", "i32", <<ConstInt(5, "i32"), ConstInt(5, "i32")>>, <<>>, ""), FALSE)

TranslateReturn ==
    \/ /\ ret_ty = "void"
       /\ Step(Instr("Return", "void", <<>>, <<>>, ""), TRUE)
    \/ /\ ret_ty # "void"
       /\ \E a \in Values(ret_ty) : Step(Instr("Return", "void", <<a>>, <<>>, ""), TRUE)

\* An unconditional br; the entry block has no predecessors
TranslateBr ==
    \E dest \in 2..nblocks : Step(Instr("Br", "void", <<>>, <<dest>>, ""), TRUE)

\* A conditional br
TranslateCondBr ==
    \E c \in ResultsOf("i1") : \E dest \in 2..nblocks :
        Step(Instr("Br", "void", <<c>>, <<dest, dest>>, ""), TRUE)

\* The variables after ClassFileWriter::finalize returned f
Finalized(f) ==
    /\ entries' = f.pool
    /\ serialized' = f.methods
    /\ pc' = "finalized"
    /\ UNCHANGED <<mwVars, params, ret_ty, nblocks, instrs, curBlock, next_slot,
                   ssa_values, stack_pointer, dirty, already_written, to_write,
                   poolVars, overflow_checks, emitVars, compVars, cstrVars>>

\* compile: `out = class_output.finalize()`
Finalize ==
    /\ pc = "done"
    /\ Finalized(finalize(MW.pool, <<MW>>))

Next ==
    \/ RecordStartOfBasicBlock
    \/ TranslateAdd
    \/ TranslateMul
    \/ TranslateICmp
    \/ TranslateSelect
    \/ TranslateAlloca
    \/ TranslateUnsupported
    \/ TranslateReturn
    \/ TranslateBr
    \/ TranslateCondBr
    \/ Finalize

Spec == Init /\ [][Next]_vars

-----------------------------------------------------------------------------
(* SpecCall: translate_method on a function of one block that allocates    *)
(* stack memory and calls functions                                         *)

\* The functions called: what the name mapper and get_instrinsic_handler
\* give for their names, and their types
Callee(intrinsic, special_new, ty, param_tys, ret) ==
    [intrinsic |-> intrinsic, special_new |-> special_new,
     loc |-> [class |-> "K", name |-> "g", ty |-> ty],
     params |-> param_tys, ret |-> ret]

FunctionTypes == {"Special", "Virtual", "Interface", "Static"}

Callees ==
    {Callee("none", "", ty, <<"i64", "i32">>, "i32") : ty \in FunctionTypes}
    \cup {Callee("none", "", ty, <<>>, "void") : ty \in {"Static", "Virtual"}}
    \cup {Callee("nop", "", "Static", <<"i32">>, "void"),
          Callee("todo", "", "Static", <<"i32">>, "i32"),
          Callee("none", "K", "Static", <<>>, "ptr")}

\* The operands of a call: a constant of each parameter type
Arguments(tys) == [i \in 1..Len(tys) |-> ConstInt(5, tys[i])]

CallInit == Init /\ nblocks = 1

TranslateCall ==
    /\ pc = "instrs"
    /\ \E f \in Callees :
        StepWithin(CallInstr(f.ret, Arguments(f.params), f), FALSE, MaxCallInstrs)

\* The allocas of an absent or constant element count
Allocas ==
    {AllocaInstr("i32", <<>>), AllocaInstr("i64", <<ConstInt(5000, "i32")>>)}

TranslateAllocaConst ==
    /\ pc = "instrs"
    /\ \E v \in Allocas : StepWithin(v, FALSE, MaxCallInstrs)

\* A load through a pointer an earlier instruction gave
TranslateLoad ==
    /\ pc = "instrs"
    /\ \E ptr \in ResultsOf("ptr"), ty \in {"i32", "float"} :
        StepWithin(Instr("Load", ty, <<ptr>>, <<>>, ""), FALSE, MaxCallInstrs)

\* A store through a pointer an earlier instruction gave
TranslateStore ==
    /\ pc = "instrs"
    /\ \E ptr \in ResultsOf("ptr"), ty \in {"i64"} :
        StepWithin(Instr("Store", "void", <<ConstInt(5, ty), ptr>>, <<>>, ""),
                   FALSE, MaxCallInstrs)

TranslateRet ==
    \E a \in IF ret_ty = "void" THEN {<<>>} ELSE {<<ConstInt(5, ret_ty)>>} :
        StepWithin(Instr("Return", "void", a, <<>>, ""), TRUE, MaxCallInstrs)

CallNext ==
    \/ RecordStartOfBasicBlock
    \/ TranslateCall
    \/ TranslateAllocaConst
    \/ TranslateLoad
    \/ TranslateStore
    \/ TranslateRet
    \/ Finalize

SpecCall == CallInit /\ [][CallNext]_vars

-----------------------------------------------------------------------------
(* SpecCompile: main runs compile on one module, twice                      *)
(* The module has functions and no globals or annotations.  A function is   *)
(* the record of what the name mapper returns for it and of its body:       *)
(*   name, class     JavaFunctionLocation.name and .class                   *)
(*   kind            "declaration": no basic blocks                         *)
(*                   "extern_declaration": no basic blocks, and             *)
(*                                  JavaFunctionLocation.external           *)
(*                   "defined": one block, `ret void`                       *)
(*                   "unsupported": one block with a `sub`                  *)
(*                   "external": defined, and JavaFunctionLocation.external *)

Classes == {"A", "B"}
FunctionKinds ==
    {"declaration", "extern_declaration", "defined", "unsupported", "external"}
FunctionNames == <<"f1", "f2", "f3", "f4">>

\* The modules compiled: up to MaxFunctions functions with distinct names
Modules ==
    UNION {[1..n -> Classes \X FunctionKinds] : n \in 1..MaxFunctions}

Function(m, i) == [name |-> FunctionNames[i], class |-> m[i][1], kind |-> m[i][2]]

\* A variant of has_basic_blocks that takes every function to have a body
has_basic_blocks_always(f) == TRUE

\* compile: `f.get_basic_blocks().len() == 0` is false
has_basic_blocks(f) == f.kind \notin {"declaration", "extern_declaration"}

\* compile: `location.external` of the function's JavaFunctionLocation
location_external(f) == f.kind \in {"extern_declaration", "external"}

\* FunctionValue::get_basic_blocks and BasicBlock::get_instructions: the
\* instructions of the function's only block
Body(f) ==
    IF f.kind = "unsupported"
    THEN <<Instr("Sub", "i32", <<ConstInt(5, "i32"), ConstInt(5, "i32")>>, <<>>, ""),
           Instr("Return", "void", <<>>, <<>>, "")>>
    ELSE <<Instr("Return", "void", <<>>, <<>>, "")>>

RECURSIVE translate_instructions(_, _)
translate_instructions(e, i) ==
    IF i > Len(e.instrs) THEN e
    ELSE translate_instructions(translate_and_store(e, Ssa(i, e.instrs[i].ty)), i + 1)

\* translate_method on a function of one block
translate_method(f, w) ==
    translate_instructions(
        record_start_of_basic_block([NewContext(<<>>, w) EXCEPT !.instrs = Body(f)], 1), 1)

\* compile, `for (meth_name, type_info, method) in plan.methods`: the writers
\* of the methods from the i-th on, after the writers ws; the panic of the
\* first method that panics ends the loop
RECURSIVE write_methods(_, _, _, _, _)
write_methods(pool, meths, i, ws, oc) ==
    IF i > Len(meths) THEN [pool |-> pool, ws |-> ws, panic |-> ""]
    ELSE Let(translate_method(meths[i],
                              write_method(pool, meths[i].name,
                                           get_descriptor(<<>>, "void"), oc)).w,
             LAMBDA w :
                 IF Panicked(w) THEN [pool |-> w.pool, ws |-> ws, panic |-> w.panic]
                 ELSE write_methods(w.pool, meths, i + 1, Append(ws, w), oc))

\* ClassFileWriter::write_header: the magic number and the version
ClassHeader == [kind |-> "class_header"]

\* ZipWriter::start_file: a new entry, and its local header goes to the output
start_file(z, name) ==
    [files |-> Append(z.files, [name |-> name, data |-> <<>>]),
     out |-> Append(z.out, [kind |-> "local_header", name |-> name])]

\* ZipWriter as Write: data of the entry started last
zip_write(z, d) ==
    [files |-> [z.files EXCEPT ![Len(z.files)].data = Append(@, d)],
     out |-> Append(z.out, [kind |-> "data", data |-> d])]

\* ZipWriter::finish: the central directory goes to the output
zip_finish(z) ==
    [files |-> z.files,
     out |-> Append(z.out, [kind |-> "central_directory",
                            names |-> [i \in DOMAIN z.files |-> z.files[i].name]])]

Zip == [files |-> archive, out |-> out_buf]

\* HashMap::entry(class).or_insert_with(ClassPlan::default).methods.push(f)
plan_method(plans, f) ==
    Put(plans, f.class,
        IF f.class \in DOMAIN plans THEN Append(plans[f.class], f) ELSE <<f>>)

\* main: `File::create(output)` has made the output file, empty, and
\* `BufWriter::new` an empty buffer in front of it; compile: `ZipWriter::new`
StartRun ==
    /\ fn_index = 1 /\ class_plans = <<>> /\ iter_left = {}
    /\ archive = <<>> /\ out_buf = <<>> /\ out_file = <<>>
    /\ cpc = "planning"

CompileInit ==
    /\ module \in Modules
    /\ panic_unwind \in BOOLEAN
    /\ run = 1 /\ first_archive = <<>>
    /\ StartRun
    /\ entries = <<>>
    /\ PoolIdle
    /\ WriterIdle
    /\ EmitIdle
    /\ TranslatorIdle
    /\ CStrIdle

\* The variables the actions of compile leave alone
CompileFrame ==
    UNCHANGED <<entries, poolVars, overflow_checks, mwVars, emitVars, trVars, cstrVars,
                module, panic_unwind, run, first_archive>>

\* A panic with the ZipWriter in the state z: where the panic unwinds, the
\* BufWriter is dropped and writes what it holds to the file; where it
\* aborts the process, what it holds is lost
Aborted(z) ==
    /\ cpc' = "aborted"
    /\ archive' = z.files
    /\ out_buf' = IF panic_unwind THEN <<>> ELSE z.out
    /\ out_file' = IF panic_unwind THEN out_file \o z.out ELSE out_file
    /\ UNCHANGED <<fn_index, class_plans, iter_left>>
    /\ CompileFrame

\* The state after the planning loop is at function i with the plans `plans`
Planned(plans, i) ==
    /\ fn_index' = i
    /\ class_plans' = plans
    /\ iter_left' = IF i > Len(module) THEN DOMAIN plans ELSE {}
    /\ cpc' = IF i <= Len(module) THEN "planning"
              ELSE IF DOMAIN plans = {} THEN "support" ELSE "classes"
    /\ UNCHANGED <<archive, out_buf, out_file>>
    /\ CompileFrame

\* compile: one iteration of `for f in llvm_ir.get_functions()`
PlanFunction ==
    /\ cpc = "planning"
    /\ fn_index <= Len(module)
    /\ IF ~has_basic_blocks(Function(module, fn_index))
       THEN Planned(class_plans, fn_index + 1)
       ELSE IF location_external(Function(module, fn_index))
       THEN Aborted(Zip)
       ELSE Planned(plan_method(class_plans, Function(module, fn_index)), fn_index + 1)

\* The state after the class c was written, the ZipWriter in the state z
ClassWritten(c, z) ==
    /\ archive' = z.files
    /\ out_buf' = z.out
    /\ iter_left' = iter_left \ {c}
    /\ cpc' = IF iter_left = {c} THEN "support" ELSE "classes"
    /\ UNCHANGED <<fn_index, class_plans, out_file>>
    /\ CompileFrame

\* A variant of ClassOutcome that leaves out `class_output.finalize()`
ClassOutcome_unfinalized(c, z, m) ==
    IF m.panic # "" THEN Aborted(z)
    ELSE ClassWritten(c, z)

\* The outcome of the loop body for the class c, whose header is written and
\* whose methods gave m
ClassOutcome(c, z, m) ==
    IF m.panic # "" THEN Aborted(z)
    ELSE ClassWritten(c, zip_write(z, finalize(m.pool, m.ws)))

\* compile: one iteration of `for (class, plan) in class_plans`; the HashMap
\* yields its keys in an order that differs from one run to the next
WriteClass ==
    /\ cpc = "classes"
    /\ \E c \in iter_left :
        ClassOutcome(c,
                     zip_write(start_file(Zip, <<c, ".class">>), ClassHeader),
                     write_methods(write_classfile(c, "java/lang/Object"),
                                   class_plans[c], 1, <<>>, overflow_checks))

\* MemorySegmentStrategy::append_support_classes
AppendSupportClasses ==
    /\ cpc = "support"
    /\ archive' = zip_write(start_file(Zip, <<MEMORYSEGMENTSTACK, ".class">>),
                            [kind |-> "builtin"]).files
    /\ out_buf' = zip_write(start_file(Zip, <<MEMORYSEGMENTSTACK, ".class">>),
                            [kind |-> "builtin"]).out
    /\ cpc' = "finish"
    /\ UNCHANGED <<fn_index, class_plans, iter_left, out_file>>
    /\ CompileFrame

\* compile: `out.finish()`, and main returns: the BufWriter is dropped and
\* writes what it holds to the file
Finish ==
    /\ cpc = "finish"
    /\ archive' = archive
    /\ out_file' = out_file \o zip_finish(Zip).out
    /\ out_buf' = <<>>
    /\ cpc' = "finished"
    /\ UNCHANGED <<fn_index, class_plans, iter_left>>
    /\ CompileFrame

\* The program is run again on the same module
SecondRun ==
    /\ cpc = "finished"
    /\ run = 1
    /\ run' = 2
    /\ first_archive' = archive
    /\ fn_index' = 1 /\ class_plans' = <<>> /\ iter_left' = {}
    /\ archive' = <<>> /\ out_buf' = <<>> /\ out_file' = <<>>
    /\ cpc' = "planning"
    /\ UNCHANGED <<entries, poolVars, overflow_checks, mwVars, emitVars, trVars, cstrVars,
                   module, panic_unwind>>

CompileNext ==
    \/ PlanFunction
    \/ WriteClass
    \/ AppendSupportClasses
    \/ Finish
    \/ SecondRun

SpecCompile == CompileInit /\ [][CompileNext]_vars

-----------------------------------------------------------------------------
(* SpecCStr: starts_with of src/crates/cstr_ops/src/lib.rs *)

MaxCStrLen == 2

\* The bytes of a C string, and the bytes of a pattern, which may hold NUL
CStrBytes == {97, 98}
PatternBytes == {0, 97, 98}

SeqsUpTo(S, n) == UNION {[1..k -> S] : k \in 0..n}

RECURSIVE is_prefix_loop(_, _, _)
\* `for b in cstr.bytes()` of `impl CPattern for &[u8]`, from the byte at
\* index i on, and the return after the loop
is_prefix_loop(self, cs, i) ==
    IF i >= Len(cs) THEN i = Len(self)
    ELSE IF i >= Len(self) THEN TRUE
    ELSE IF self[i + 1] # cs[i + 1] THEN FALSE
    ELSE is_prefix_loop(self, cs, i + 1)

\* CPattern::is_prefix_of
is_prefix_of(self, cs) == is_prefix_loop(self, cs, 0)

\* A variant of starts_with that asks whether the string is a prefix of the
\* pattern
starts_with_swapped(self, p) == is_prefix_of(self, p)

\* CStrExt::starts_with
starts_with(self, p) == is_prefix_of(p, self)

CStrInit ==
    /\ cstr \in SeqsUpTo(CStrBytes, MaxCStrLen)
    /\ pat \in SeqsUpTo(PatternBytes, MaxCStrLen + 1)
    /\ starts = <<>>
    /\ entries = <<>>
    /\ PoolIdle
    /\ WriterIdle
    /\ EmitIdle
    /\ TranslatorIdle
    /\ CompileIdle

StartsWith ==
    /\ starts = <<>>
    /\ starts' = <<starts_with(cstr, pat)>>
    /\ UNCHANGED <<cstr, pat, entries, poolVars, overflow_checks, mwVars, emitVars, trVars,
                   compVars>>

CStrNext == StartsWith

SpecCStr == CStrInit /\ [][CStrNext]_vars

-----------------------------------------------------------------------------
(* SpecCmp: translate_method on a function of two ints that compares them,  *)
(* and a caller of emit_if                                                  *)

MaxCmpInstrs == 1

\* The predicates of the icmp instructions compared
CmpPredicates == {"EQ", "NE", "SGT", "SGE", "SLT", "SLE", "UGT", "ULT"}

\* enum ComparisonType
ComparisonTypes ==
    {"Equal", "NotEqual", "LessThan", "LessThanEqual", "GreaterThan", "GreaterThanEqual"}

\* compile: write_classfile, write_method, FunctionTranslationContext::new
CmpInit ==
    /\ overflow_checks \in BOOLEAN
    /\ LET pool0 == write_classfile("C", "java/lang/Object")
           w == write_method(pool0, "f", get_descriptor(<<"i32", "i32">>, "i32"),
                             overflow_checks)
           e == NewContext(<<"i32", "i32">>, w)
       IN  /\ code = w.code /\ wpos = w.wpos /\ current_frame = w.frame
           /\ max_stack_size = w.max_stack_size /\ stackmaptable = w.stackmaptable
           /\ entries = w.pool /\ panic = w.panic
           /\ targets = w.targets /\ patched = w.patched /\ invokes = w.invokes
           /\ params = e.params /\ instrs = e.instrs
           /\ next_slot = e.next_slot /\ ssa_values = e.ssa_values
           /\ stack_pointer = e.stack_pointer /\ dirty = e.dirty
           /\ already_written = e.already_written /\ to_write = e.to_write
    /\ ret_ty = "i32" /\ nblocks = 1
    /\ curBlock = 1 /\ pc = "block_start" /\ serialized = <<>>
    /\ PoolIdle
    /\ EmitIdle
    /\ CompileIdle
    /\ CStrIdle

\* An icmp of a parameter with a parameter or a constant
CmpTranslateICmp ==
    /\ Len(targets) + 2 <= 2 * MaxCmpInstrs
    /\ \E pred \in CmpPredicates :
       \E a \in ParamsOf("i32") : \E b \in ParamsOf("i32") \cup {ConstInt(5, "i32")} :
            StepWithin(Instr("ICmp", "i1", <<a, b>>, <<>>, pred), FALSE, MaxCmpInstrs + 1)

\* A caller loads the first parameter and branches on its comparison with zero
CmpEmitIf ==
    /\ pc = "instrs"
    /\ Len(targets) + 1 <= 2 * MaxCmpInstrs
    /\ \E ty \in ComparisonTypes :
        /\ SetE(W(E, emit_if(emit_load(MW, "Int", 0), ty)))
        /\ lastArgs' = Args(ty, 0)
    /\ UNCHANGED <<pc, curBlock, ret_ty, nblocks, serialized, poolVars, overflow_checks,
                   saved_frame, restored, highWater, lastPatch, lastEmit, nEmits,
                   compVars, cstrVars>>

CmpNext ==
    \/ RecordStartOfBasicBlock
    \/ CmpTranslateICmp
    \/ CmpEmitIf

SpecCmp == CmpInit /\ [][CmpNext]_vars

-----------------------------------------------------------------------------
(* SpecPaths: translate_method on a function of several blocks that end in  *)
(* a goto or a return and allocate stack memory                             *)

MaxPathBlocks == 3
MaxPathInstrs == 5

\* compile: write_classfile, write_method, FunctionTranslationContext::new
PathInit ==
    /\ overflow_checks \in BOOLEAN
    /\ \E n \in 1..MaxPathBlocks :
        LET pool0 == write_classfile("C", "java/lang/Object")
            w == write_method(pool0, "f", get_descriptor(<<>>, "void"), overflow_checks)
            e == NewContext(<<>>, w)
        IN  /\ code = w.code /\ wpos = w.wpos /\ current_frame = w.frame
            /\ max_stack_size = w.max_stack_size /\ stackmaptable = w.stackmaptable
            /\ entries = w.pool /\ panic = w.panic
            /\ targets = w.targets /\ patched = w.patched /\ invokes = w.invokes
            /\ params = e.params /\ instrs = e.instrs
            /\ next_slot = e.next_slot /\ ssa_values = e.ssa_values
            /\ stack_pointer = e.stack_pointer /\ dirty = e.dirty
            /\ already_written = e.already_written /\ to_write = e.to_write
            /\ nblocks = n
    /\ ret_ty = "void"
    /\ curBlock = 1 /\ pc = "block_start" /\ serialized = <<>>
    /\ PoolIdle
    /\ EmitIdle
    /\ CompileIdle
    /\ CStrIdle

PathAlloca ==
    /\ pc = "instrs"
    /\ StepWithin(AllocaInstr("i32", <<>>), FALSE, MaxPathInstrs)

\* An unconditional br to a block other than the entry block
PathBr ==
    /\ pc = "instrs"
    /\ \E dest \in 2..nblocks :
        StepWithin(Instr("Br", "void", <<>>, <<dest>>, ""), TRUE, MaxPathInstrs)

PathRet ==
    /\ pc = "instrs"
    /\ StepWithin(Instr("Return", "void", <<>>, <<>>, ""), TRUE, MaxPathInstrs)

PathNext ==
    \/ RecordStartOfBasicBlock
    \/ PathAlloca
    \/ PathBr
    \/ PathRet

SpecPaths == PathInit /\ [][PathNext]_vars

-----------------------------------------------------------------------------
(* SpecOrder: translate_method on a function of three blocks whose blocks   *)
(* are declared in an order other than the order they run in                *)

\* fn f(i32 %0) -> i32 with the blocks entry, b and c:
\*   entry: br d
\*   b:     %2 = op1 i32 x, 5      ret i32 %2
\*   c:     %4 = op2 i32 %0, 5     term
OrderBody(op1, x, op2, d, term) ==
    <<Instr("Br", "void", <<>>, <<d>>, ""),
      Instr(op1, "i32", <<x, ConstInt(5, "i32")>>, <<>>, ""),
      Instr("Return", "void", <<Ssa(2, "i32")>>, <<>>, ""),
      Instr(op2, "i32", <<Param(0, "i32"), ConstInt(5, "i32")>>, <<>>, ""),
      term>>

\* The functions translated. Block b may use %4 of block c where c runs
\* before b: entry branches to c and c branches to b.
OrderBodies ==
    LET terms == {Instr("Br", "void", <<>>, <<2>>, ""),
                  Instr("Return", "void", <<Ssa(4, "i32")>>, <<>>, "")}
        T == {"Add", "Mul"} \X {Param(0, "i32"), Ssa(4, "i32")} \X {"Add", "Mul"}
                \X {2, 3} \X terms
    IN  {OrderBody(t[1], t[2], t[3], t[4], t[5]) :
            t \in {u \in T : u[2].k = "ssa" => (u[4] = 3 /\ u[5].op = "Br")}}

\* compile: write_classfile, write_method, FunctionTranslationContext::new
OrderInit ==
    /\ overflow_checks \in BOOLEAN
    /\ \E body \in OrderBodies :
        LET pool0 == write_classfile("C", "java/lang/Object")
            w == write_method(pool0, "f", get_descriptor(<<"i32">>, "i32"), overflow_checks)
            e == NewContext(<<"i32">>, w)
        IN  /\ code = w.code /\ wpos = w.wpos /\ current_frame = w.frame
            /\ max_stack_size = w.max_stack_size /\ stackmaptable = w.stackmaptable
            /\ entries = w.pool /\ panic = w.panic
            /\ targets = w.targets /\ patched = w.patched /\ invokes = w.invokes
            /\ params = e.params /\ instrs = e.instrs
            /\ next_slot = e.next_slot /\ ssa_values = e.ssa_values
            /\ stack_pointer = e.stack_pointer /\ dirty = e.dirty
            /\ already_written = e.already_written /\ to_write = e.to_write
            /\ module = <<[name |-> "f", body |-> body]>>
    /\ ret_ty = "i32" /\ nblocks = 3
    /\ curBlock = 1 /\ pc = "block_start" /\ serialized = <<>>
    /\ panic_unwind = TRUE /\ run = 0 /\ fn_index = 0
    /\ class_plans = <<>> /\ iter_left = {} /\ archive = <<>>
    /\ out_buf = <<>> /\ out_file = <<>> /\ first_archive = <<>> /\ cpc = "idle"
    /\ PoolIdle
    /\ EmitIdle
    /\ CStrIdle

\* translate_method: `translate_and_store(instr.as_any_value_enum(), ..)` on
\* the next instruction of the function; the context sees every instruction
\* of the function, `instrs` keeps the ones reached
TranslateNext ==
    /\ pc = "instrs"
    /\ module # <<>>
    /\ LET body == module[1].body
           i == Len(instrs) + 1
       IN  Translated([translate_and_store([E EXCEPT !.instrs = body], Ssa(i, body[i].ty))
                           EXCEPT !.instrs = SubSeq(body, 1, i)],
                      body[i].op \in {"Br", "Return"})

OrderNext ==
    \/ RecordStartOfBasicBlock
    \/ TranslateNext

SpecOrder == OrderInit /\ [][OrderNext]_vars

-----------------------------------------------------------------------------
(* Claims about the constant pool *)

TagAt(p, r) == IF r \in 1..Len(p) THEN p[r].tag ELSE "none"
InRange(p, r) == r >= 1 /\ r <= PoolCount(p) - 1
RefIs(p, r, tag) == InRange(p, r) /\ TagAt(p, r) = tag

\* C1: every reference stored inside a pool entry is in 1..count-1 and resolves
\* to an entry of the expected tag: Class -> Utf8; NameAndType -> Utf8, Utf8;
\* FieldRef, MethodRef, InterfaceMethodRef -> Class, NameAndType.
C1_RefsResolveToExpectedTag ==
    \A k \in 1..Len(entries) :
        /\ entries[k].tag = "Class" => RefIs(entries, entries[k].r1, "Utf8")
        /\ entries[k].tag = "NameAndType" =>
                /\ RefIs(entries, entries[k].r1, "Utf8")
                /\ RefIs(entries, entries[k].r2, "Utf8")
        /\ entries[k].tag \in {"FieldRef", "MethodRef", "InterfaceMethodRef"} =>
                /\ RefIs(entries, entries[k].r1, "Class")
                /\ RefIs(entries, entries[k].r2, "NameAndType")

\* C2: calling the operation called last a second time, with equal arguments,
\* returns the reference the first call returned and adds no entry.
C2_SecondCallSameRef ==
    lastOp # NoOp =>
        /\ Apply(lastOp, entries).ref = lastRef
        /\ Apply(lastOp, entries).pool = entries

\* A member reference was asked for a second time, after other entries were
\* added, and the pool did not grow.
C2_Witness ==
    /\ lastOp.op = "methodref"
    /\ nOps >= 2
    /\ Len(entries) = lenBefore
    /\ lastRef < Len(entries)

-----------------------------------------------------------------------------
(* Claims about the translation of a function *)

\* The 16-bit big-endian value at a byte offset of the code
U16At(c, off) == c[off + 1] * 256 + c[off + 2]

C4_EveryDestinationHasFrame ==
    pc = "finalized" =>
        \A j \in DOMAIN patched :
            /\ serialized[1].stack_map_table # <<>>
            /\ patched[j] \in DOMAIN serialized[1].stack_map_table[1]

\* A finalized method with a branch to a basic-block start and a branch to a
\* label inside an icmp, which is no basic-block start.
C4_Witness ==
    /\ pc = "finalized"
    /\ \E j \in DOMAIN patched : \E b \in DOMAIN already_written :
        b > 1 /\ patched[j] = already_written[b]
    /\ \E j \in DOMAIN patched : \A b \in DOMAIN already_written :
        patched[j] # already_written[b]

\* C7: the max_locals serialized in the Code attribute equals next_slot at
\* finalization.
C7_MaxLocalsIsNextSlot ==
    pc = "finalized" => serialized[1].max_locals = next_slot

\* The slots a value of a Java type occupies
SlotWidth(java_type) == IF java_type \in {"Long", "Double"} THEN 2 ELSE 1

\* The local-slot ranges [lo, hi) assigned in the function: to the parameters,
\* to the instruction results, to the memory strategy's base and offset
SlotRanges ==
    {[id |-> <<"param", i>>, lo |-> i - 1,
      hi |-> i - 1 + SlotWidth(get_java_type(params[i]))] : i \in 1..Len(params)}
    \cup
    {[id |-> <<"result", j>>, lo |-> ssa_values[j],
      hi |-> ssa_values[j] + SlotWidth(get_java_type(instrs[j].ty))] : j \in DOMAIN ssa_values}
    \cup
    (IF stack_pointer = <<>> THEN {}
     ELSE {[id |-> <<"base", 0>>, lo |-> stack_pointer[1].base,
            hi |-> stack_pointer[1].base + SlotWidth("Reference")],
           [id |-> <<"offset", 0>>, lo |-> stack_pointer[1].offset,
            hi |-> stack_pointer[1].offset + SlotWidth("Int")]})

\* C8: the slot ranges assigned within one function are pairwise disjoint, a
\* long or double taking two slots, and next_slot lies past every one of them.
C8_SlotRangesDisjoint ==
    pc \in {"block_start", "instrs", "done", "finalized"} =>
        /\ \A r1, r2 \in SlotRanges :
             r1.id # r2.id => r1.hi <= r2.lo \/ r2.hi <= r1.lo
        /\ \A r \in SlotRanges : r.hi <= next_slot

-----------------------------------------------------------------------------
(* Claims about the method writer *)

\* C5: set_target(target, loc) does not abort, stores (loc - instruction_offset)
\* as a 16-bit two's complement big-endian value in the two operand bytes, and
\* leaves every other byte and the write position as they were, for loc after
\* and before the branch instruction.
C5_SetTargetWritesDisplacement ==
    lastPatch # <<>> =>
        LET t == lastPatch[1].target
            d == lastPatch[1].loc - t.instruction_location
        IN  /\ panic = ""
            /\ Len(code) = Len(lastPatch[1].code)
            /\ U16At(code, t.jump_location) = d % U16
            /\ \A k \in 1..Len(code) :
                 k \notin {t.jump_location + 1, t.jump_location + 2}
                    => code[k] = lastPatch[1].code[k]
            /\ wpos = lastPatch[1].wpos

\* C6: the max_stack value serialized is at least the largest slot count the
\* tracked operand stack reached, Long and Double counting two slots, also after
\* set_current_stackframe put a saved frame back.
C6_MaxStackCoversHighWater == SerializedMaxStack(max_stack_size) >= highWater

\* A saved frame was put back and the stack then grew to a new maximum of three
\* slots held by two values.
C6_Witness ==
    /\ restored
    /\ lastEmit = "emit_load"
    /\ SlotsOf(current_frame.stack.list) = 3
    /\ Len(current_frame.stack.list) = 2
    /\ highWater = 3

-----------------------------------------------------------------------------
(* Claims about compile *)

\* C9: a second run of compile on the same module writes the same sequence of
\* archive entries, with the same bytes, as the first run.
C9_RunsWriteSameArchive ==
    run = 2 /\ cpc = "finished" => archive = first_archive

\* C10: when the compilation has aborted with a fatal error, no bytes of the
\* archive are visible at the output destination.
C10_NoOutputAfterAbort ==
    cpc = "aborted" => out_file = <<>>

\* The functions of the module that have a body and an external location
ExternalDefinitions ==
    {i \in 1..Len(module) : module[i][2] = "external"}

\* C11: when a function with a body has a location flagged external, compile
\* aborts at that function at the latest, before any class is started, so no
\* method of it is in any class; and the planning loop aborts at no other
\* function, a function without a body is skipped whatever its location.
C11_ExternalDefinitionRejected ==
    /\ \A i \in ExternalDefinitions :
        /\ fn_index <= i
        /\ cpc \in {"planning", "aborted"}
        /\ archive = <<>>
    /\ cpc = "aborted" /\ fn_index <= Len(module) => fn_index \in ExternalDefinitions
    /\ \A c \in DOMAIN class_plans : \A k \in 1..Len(class_plans[c]) :
        class_plans[c][k].kind \in {"defined", "unsupported"}

\* compile aborted at a defined external function, after it skipped a function
\* without a body whose location is external too
C11_Witness ==
    /\ cpc = "aborted"
    /\ fn_index = 2
    /\ module[1][2] = "extern_declaration"
    /\ module[2][2] = "external"
    /\ archive = <<>>

\* C13: a function of a single basic block without branch, ICmp or Select is
\* serialized with a Code attribute that has no StackMapTable, and the constant
\* pool of its class, which has no other method, holds no "StackMapTable" name.
C13_NoStackMapForStraightLine ==
    (/\ pc = "finalized"
     /\ nblocks = 1
     /\ \A i \in 1..Len(instrs) : instrs[i].op \notin {"Br", "ICmp", "Select"})
    => /\ serialized[1].stack_map_table = <<>>
       /\ \A r \in 1..Len(entries) : entries[r] # EUtf8("StackMapTable")

-----------------------------------------------------------------------------
(* Claims about calls *)

\* The invoke opcode of a dispatch kind
InvokeOpcode(ty) ==
    CASE ty = "Static"    -> 184
      [] ty = "Special"   -> 183
      [] ty = "Virtual"   -> 182
      [] ty = "Interface" -> 185

\* The instruction translated last is a call that is neither an intrinsic nor
\* a special new, and its translation did not abort
CallTranslated ==
    /\ instrs # <<>>
    /\ instrs[Len(instrs)].op = "Call"
    /\ instrs[Len(instrs)].callee.intrinsic = "none"
    /\ instrs[Len(instrs)].callee.special_new = ""
    /\ panic = ""

LayoutOfBits(b, kind) ==
    CASE b <= 8  -> "java/lang/foreign/ValueLayout$OfByte"
      [] b <= 16 -> "java/lang/foreign/ValueLayout$OfShort"
      [] b <= 32 -> IF kind = "Float" THEN "java/lang/foreign/ValueLayout$OfFloat"
                    ELSE "java/lang/foreign/ValueLayout$OfInt"
      [] b <= 64 -> IF kind = "Double" THEN "java/lang/foreign/ValueLayout$OfDouble"
                    ELSE "java/lang/foreign/ValueLayout$OfLong"

\* The type of the value the load or store translated last moves
AccessedType ==
    IF instrs[Len(instrs)].op = "Load" THEN instrs[Len(instrs)].ty
    ELSE instrs[Len(instrs)].ops[1].ty

\* The instruction translated last is a load or a store, and its translation
\* did not abort
AccessTranslated ==
    /\ instrs # <<>>
    /\ instrs[Len(instrs)].op \in {"Load", "Store"}
    /\ panic = ""

\* C14: the get or set emitted for a load or a store of a value whose type
\* has an ABI size of b bits takes the value layout the size table gives b
\* and the value's Java kind; a 32-bit integer is accessed through OfInt.
C14_LayoutMatchesBitSize ==
    AccessTranslated =>
        /\ invokes # <<>>
        /\ invokes[Len(invokes)].opcode = 185
        /\ invokes[Len(invokes)].desc.params[1]
             = DClass(LayoutOfBits(8 * get_abi_size(AccessedType),
                                   get_java_type(AccessedType)))

\* The instruction translated last is an alloca of an absent or constant
\* element count
AllocaTranslated ==
    /\ instrs # <<>>
    /\ instrs[Len(instrs)].op = "Alloca"
    /\ \/ instrs[Len(instrs)].ops = <<>>
       \/ instrs[Len(instrs)].ops[1].k = "const"

\* abi_size(element type) x count of the alloca translated last
AllocaSize ==
    get_abi_size(instrs[Len(instrs)].elem)
        * (IF instrs[Len(instrs)].ops = <<>> THEN 1 ELSE instrs[Len(instrs)].ops[1].i)

\* How many bytes a load of a local below 256 takes
LoadLen(slot) == IF slot <= 3 THEN 1 ELSE 2

\* The index in code of the last byte of the iinc const_stack_alloc wrote
\* last: after it come the loads of base and offset, i2l and the asSlice
IincEnd ==
    invokes[Len(invokes)].location
        - LoadLen(stack_pointer[1].base) - LoadLen(stack_pointer[1].offset)

\* The increment of that iinc, read back from the code as the JVM reads it
WrittenIncrement ==
    IF code[IincEnd - 2] = 132 /\ code[IincEnd - 1] = stack_pointer[1].offset
    THEN (IF code[IincEnd] >= 128 THEN code[IincEnd] - 256 ELSE code[IincEnd])
    ELSE AsI16(code[IincEnd - 1] * 256 + code[IincEnd])

\* C15: the iinc of an alloca of an absent or constant count decreases the
\* stack offset by abi_size(element type) x count, and an alloca whose size
\* no iinc can encode aborts.
C15_AllocaDecreasesBySize ==
    AllocaTranslated =>
        IF AllocaSize > 32768 THEN panic # ""
        ELSE panic = "" => WrittenIncrement = -AllocaSize

\* The call v goes through pre_call: it is neither an intrinsic nor a special new
LoweredThroughPreCall(v) ==
    v.op = "Call" /\ v.callee.intrinsic = "none" /\ v.callee.special_new = ""

\* An alloca was translated before instruction k and no call after it and
\* before k has synchronized the offset
AllocaSinceLastSync(k) ==
    \E j \in 1..(k - 1) :
        /\ instrs[j].op = "Alloca"
        /\ \A i \in (j + 1)..(k - 1) : ~LoweredThroughPreCall(instrs[i])

\* The call translated last was preceded by the setOffset of its pre_call
SetOffsetEmitted ==
    /\ Len(invokes) >= 2
    /\ invokes[Len(invokes) - 1].name = "setOffset"

\* C16: pre_call emits the setOffset synchronization for a call exactly when
\* an alloca was translated in the function since the last synchronization.
C16_SyncOnlyWhenDirty ==
    CallTranslated => (SetOffsetEmitted <=> AllocaSinceLastSync(Len(instrs)))

(* Claims about instruction forms *)

\* The dedicated opcode of slot 0, and the general opcode, of a load or store
\* of a kind
Opcode0(name, ty) ==
    (IF name = "emit_load" THEN 26 ELSE 59)
        + 4 * (CASE ty = "Int" -> 0 [] ty = "Long" -> 1 [] ty = "Float" -> 2
                 [] ty = "Double" -> 3 [] ty = "Reference" -> 4)

GeneralOpcode(name, ty) ==
    (IF name = "emit_load" THEN 21 ELSE 54)
        + (CASE ty = "Int" -> 0 [] ty = "Long" -> 1 [] ty = "Float" -> 2
             [] ty = "Double" -> 3 [] ty = "Reference" -> 4)

\* The bytes the emitter called last wrote
LastWritten == SubSeq(code, lastArgs[1].at + 1, Len(code))

\* emit_load or emit_store was called last and returned
LoadStoreEmitted ==
    /\ lastEmit \in {"emit_load", "emit_store"}
    /\ lastArgs # <<>>
    /\ panic = ""

\* C17: emit_load and emit_store write the dedicated opcode for slots 0..3,
\* the general opcode of the kind and an index byte for slots 4..255, and
\* wide, the general opcode and a 16-bit index from slot 256 on.
C17_LoadStoreForms ==
    LoadStoreEmitted =>
        LastWritten =
            IF lastArgs[1].b <= 3
            THEN <<Opcode0(lastEmit, lastArgs[1].a) + lastArgs[1].b>>
            ELSE IF lastArgs[1].b <= 255
            THEN <<GeneralOpcode(lastEmit, lastArgs[1].a), lastArgs[1].b>>
            ELSE <<196, GeneralOpcode(lastEmit, lastArgs[1].a),
                   lastArgs[1].b \div 256, lastArgs[1].b % 256>>

\* emit_constant_int was called last and returned
ConstantIntEmitted ==
    /\ lastEmit = "emit_constant_int"
    /\ lastArgs # <<>>
    /\ panic = ""

\* The bytes of the shortest push of the Integer the pool holds at r
PoolLoad(r) == IF r <= 255 THEN <<18, r>> ELSE <<19, r \div 256, r % 256>>

\* C18: emit_constant_int(n) writes the one-byte iconst opcode when n is in
\* -1..5, else ldc or ldc_w of the pool's Integer n, and pushes one Integer.
C18_ShortestIntConstant ==
    ConstantIntEmitted =>
        /\ IF lastArgs[1].b \in -1..5
           THEN LastWritten = <<3 + lastArgs[1].b>>
           ELSE \E r \in 1..Len(entries) :
                    /\ entries[r] = EInt(lastArgs[1].b)
                    /\ LastWritten = PoolLoad(r)
        /\ Len(current_frame.stack.list) = lastArgs[1].depth + 1
        /\ current_frame.stack.list[Len(current_frame.stack.list)] = "Integer"

(* Claims about the limit of the constant pool *)

\* The entry the insertion called last was given
LastInserted == IF lastOp.op = "utf8" THEN EUtf8(lastOp.s1) ELSE EInt(lastOp.i)

\* C19: an insertion that returns, returns the entry's index plus one, a
\* reference of at most 65534, and a serialization that returns has written
\* the number of entries plus one: neither is ever cut to 16 bits or wrapped.
C19_PoolOverflowAborts ==
    /\ (lastOp.op \in {"utf8", "int"} /\ panic = "") =>
            /\ lastRef = IndexOf(entries, LastInserted) + 1
            /\ lastRef <= 65534
    /\ (lastOp.op = "serialize" /\ panic = "") => lastRef = len(entries) + 1

(* Claims about cstr_ops *)

\* C20: starts_with returns true exactly when the pattern is no longer than
\* the string and equals the string's bytes of its length: the empty pattern
\* and the whole string are prefixes, a longer or differing pattern is not.
C20_StartsWithIsPrefix ==
    starts # <<>> =>
        (starts[1] <=> (Len(pat) <= Len(cstr) /\ SubSeq(cstr, 1, Len(pat)) = pat))

\* starts_with returned true for a pattern that is all of a non-empty string
C20_Witness ==
    /\ starts = <<TRUE>>
    /\ pat = cstr
    /\ cstr # <<>>

(* Claims about the archive *)

\* What the ZipWriter has handed to its output so far, in order
Written == out_file \o out_buf

IsLocalHeader(x) == x.kind = "local_header"

SupportName == <<MEMORYSEGMENTSTACK, ".class">>

\* The three records of a class entry start at i: its local header, the
\* header of the class file and what finalize serialized
ClassEntryAt(o, i) ==
    /\ i + 2 <= Len(o)
    /\ IsLocalHeader(o[i]) /\ o[i].name # SupportName
    /\ o[i + 1] = [kind |-> "data", data |-> ClassHeader]
    /\ o[i + 2].kind = "data" /\ DOMAIN o[i + 2].data = {"pool", "methods"}

\* How many class entries the run has completed
ClassesDone == Cardinality(DOMAIN class_plans \ iter_left)

\* C21: in a compile that has not aborted, the output is one complete class
\* entry after the other (local header, class header, finalized class), then,
\* only after the last class, the support class, then, only at the end and
\* once, the central directory.
C21_EntriesOneAtATime ==
    (cpc \in {"classes", "support", "finish", "finished"}) =>
        /\ \A k \in 1..ClassesDone : ClassEntryAt(Written, 3 * k - 2)
        /\ Len(Written) = 3 * ClassesDone
                          + (IF cpc \in {"finish", "finished"} THEN 2 ELSE 0)
                          + (IF cpc = "finished" THEN 1 ELSE 0)
        /\ cpc \in {"finish", "finished"} =>
                /\ iter_left = {}
                /\ Written[3 * ClassesDone + 1] = [kind |-> "local_header", name |-> SupportName]
                /\ Written[3 * ClassesDone + 2].kind = "data"
        /\ cpc = "finished" => Written[Len(Written)].kind = "central_directory"

\* A compile of two classes has finished
C21_Witness ==
    /\ cpc = "finished"
    /\ ClassesDone = 2
    /\ Len(out_file) = 9

(* Claims about branches *)

\* The instruction translated last is a br of a predicate and two successors
CondBrTranslated ==
    /\ instrs # <<>>
    /\ instrs[Len(instrs)].op = "Br"
    /\ get_num_operands(instrs[Len(instrs)]) = 3

\* C22: a conditional br is lowered without aborting, and its lowering
\* emits an ifeq whose target is bound to a successor.
C22_CondBrLowered ==
    CondBrTranslated =>
        /\ panic = ""
        /\ \E k \in 1..Len(targets) : code[targets[k].instruction_location + 1] = 153

(* Claims about arithmetic *)

\* The instruction translated last is an add or a mul, and its translation
\* and the store of its result did not abort
ArithTranslated ==
    /\ instrs # <<>>
    /\ instrs[Len(instrs)].op \in {"Add", "Mul"}
    /\ Len(instrs) \in DOMAIN ssa_values
    /\ panic = ""

\* The opcode written right before the store of the last result
OpcodeBeforeStore == code[Len(code) - LoadLen(ssa_values[Len(instrs)])]

\* iadd, ladd, imul, lmul
ArithOpcode(op, kind) ==
    (IF op = "Add" THEN 96 ELSE 104) + (IF kind = "Long" THEN 1 ELSE 0)

\* C23: the arithmetic opcode of an add or a mul has the kind of the
\* instruction's result type, the kind of the store that follows it.
C23_ArithKindOfResult ==
    ArithTranslated =>
        OpcodeBeforeStore = ArithOpcode(instrs[Len(instrs)].op,
                                        get_java_type(instrs[Len(instrs)].ty))

(* Claims about the basic-block tracker *)

\* The step starts the block b: record_start_of_basic_block(b) returns
BlockStarts(b) == b \notin DOMAIN already_written /\ b \in DOMAIN already_written'

\* After the step the target t points to the start of the block b
PointsTo(t, b) ==
    /\ t.jump_location \in DOMAIN patched'
    /\ patched'[t.jump_location] = already_written'[b]
    /\ U16At(code', t.jump_location)
         = (already_written'[b] - t.instruction_location) % U16

\* The step translates a goto to the block b, which has started before
BranchesBackTo(b) ==
    /\ b \in DOMAIN already_written
    /\ panic' = ""
    /\ Len(instrs') = Len(instrs) + 1
    /\ instrs'[Len(instrs')].op = "Br"
    /\ instrs'[Len(instrs')].dests = <<b>>

-----------------------------------------------------------------------------
(* Claims about the comparison and select sequences                         *)

\* The step lowers an icmp or a select and returns
CmpLowered ==
    /\ panic' = ""
    /\ Len(instrs') = Len(instrs) + 1
    /\ instrs'[Len(instrs')].op \in {"ICmp", "Select"}

\* The location the k-th last branch of the step was made to point to
LabelOf(k) == patched'[targets'[Len(targets') - k].jump_location]

\* The writer where the fall-through arm of the instruction v has emitted its
\* value and is about to emit its goto
FallThroughArm(v) ==
    IF v.op = "ICmp"
    THEN emit_constant_int(
             emit_if_icmp(load_operands(E, v.ops, load).w,
                          ComparisonTypeOfPredicate(v.pred)), 0)
    ELSE load(W(E, emit_if(load(E, v.ops[1]).w, "Equal")), v.ops[2]).w

\* C25: an icmp or select lowering records at the label the conditional branch
\* jumps to the frame the tracker had once the compare had popped its
\* operands, and at the join label that frame with the one value of the
\* second arm pushed; the fall-through arm reaches its goto with the frame
\* recorded at the join label.
C25_ArmFramesAgree ==
    [][CmpLowered =>
        /\ LabelOf(1) < LabelOf(0)
        /\ {LabelOf(1), LabelOf(0)} \subseteq DOMAIN stackmaptable'
        /\ stackmaptable'[LabelOf(1)] = current_frame
        /\ Len(stackmaptable'[LabelOf(0)].stack.list) = Len(current_frame.stack.list) + 1
        /\ SubSeq(stackmaptable'[LabelOf(0)].stack.list, 1, Len(current_frame.stack.list))
             = current_frame.stack.list
        /\ stackmaptable'[LabelOf(0)].locals = current_frame.locals
        /\ FallThroughArm(instrs'[Len(instrs')]).frame = stackmaptable'[LabelOf(0)]
        /\ U16At(code', targets'[Len(targets')].jump_location)
             = LabelOf(0) - targets'[Len(targets')].instruction_location]_vars

\* A select between a parameter and a constant has been lowered, and both of
\* its labels have a frame
C25_Witness ==
    /\ panic = ""
    /\ instrs # <<>>
    /\ instrs[Len(instrs)].op = "Select"
    /\ Len(targets) >= 2
    /\ \A k \in {0, 1} :
        /\ targets[Len(targets) - k].jump_location \in DOMAIN patched
        /\ patched[targets[Len(targets) - k].jump_location] \in DOMAIN stackmaptable

-----------------------------------------------------------------------------
(* Claims about the value of a comparison                                   *)
(* The emitted bytes are run on a Java virtual machine of the instructions  *)
(* the comparison sequences use (JVMS 6.5): iload, ldc, if<cond>,           *)
(* if_icmp<cond>, goto.  A machine state is [pc, stack, locals].            *)

\* A two-byte branch offset read as a signed number
S16(x) == IF x >= 32768 THEN x - U16 ELSE x

\* <cond> of if<cond> and if_icmp<cond>, in opcode order: eq ne lt ge gt le
CondHolds(cond, x, y) ==
    CASE cond = 0 -> x = y
      [] cond = 1 -> x # y
      [] cond = 2 -> x < y
      [] cond = 3 -> x >= y
      [] cond = 4 -> x > y
      [] cond = 5 -> x <= y

\* The constant-pool entry a reference names
PoolEntry(p, ref) == p[ref - (len(p) - Len(p))]

JvmPush(st, x, n) == [st EXCEPT !.stack = Append(st.stack, x), !.pc = st.pc + n]

JvmBranch(st, c, taken, popped) ==
    [st EXCEPT !.stack = SubSeq(st.stack, 1, Len(st.stack) - popped),
               !.pc = IF taken THEN st.pc + S16(U16At(c, st.pc + 1)) ELSE st.pc + 3]

\* One instruction of the code c with the constant pool p
JvmStep(c, p, st) ==
    LET op == c[st.pc + 1]
        n  == Len(st.stack)
    IN  CASE op \in 26..29 -> JvmPush(st, st.locals[op - 26 + 1], 1)
          [] op = 21 -> JvmPush(st, st.locals[c[st.pc + 2] + 1], 2)
          [] op = 18 -> JvmPush(st, PoolEntry(p, c[st.pc + 2]).int, 2)
          [] op = 19 -> JvmPush(st, PoolEntry(p, U16At(c, st.pc + 1)).int, 3)
          [] op \in 153..158 /\ n >= 1 ->
                JvmBranch(st, c, CondHolds(op - 153, st.stack[n], 0), 1)
          [] op \in 159..164 /\ n >= 2 ->
                JvmBranch(st, c, CondHolds(op - 159, st.stack[n - 1], st.stack[n]), 2)
          [] op = 167 -> JvmBranch(st, c, TRUE, 0)
          [] OTHER -> [st EXCEPT !.pc = -1]

RECURSIVE JvmRun(_, _, _, _, _)
\* The machine run until it reaches the location stop, leaves the code, or
\* has executed fuel instructions
JvmRun(c, p, st, stop, fuel) ==
    IF st.pc = stop \/ st.pc < 0 \/ st.pc >= Len(c) \/ fuel = 0 THEN st
    ELSE JvmRun(c, p, JvmStep(c, p, st), stop, fuel - 1)

\* The values the two parameters are given
CmpInputs == {-1, 0, 5, 6}

\* What the icmp predicate says of x and y
IcmpHolds(pred, x, y) ==
    CASE pred = "EQ"  -> x = y
      [] pred = "NE"  -> x # y
      [] pred = "SGT" -> x > y
      [] pred = "SGE" -> x >= y
      [] pred = "SLT" -> x < y
      [] pred = "SLE" -> x <= y

\* What the ComparisonType says of x and y
ComparisonHolds(ty, x, y) ==
    CASE ty = "Equal" -> x = y
      [] ty = "NotEqual" -> x # y
      [] ty = "LessThan" -> x < y
      [] ty = "LessThanEqual" -> x <= y
      [] ty = "GreaterThan" -> x > y
      [] ty = "GreaterThanEqual" -> x >= y

\* The value of an operand when the locals hold the parameters
ValueOf(operand, locals) ==
    IF operand.k = "param" THEN locals[operand.i + 1] ELSE operand.i

\* The step lowers an icmp with the predicate eq, ne or a signed ordering
SignedICmpLowered ==
    /\ panic' = ""
    /\ Len(instrs') = Len(instrs) + 1
    /\ instrs'[Len(instrs')].op = "ICmp"
    /\ instrs'[Len(instrs')].pred \in {"EQ", "NE", "SGT", "SGE", "SLT", "SLE"}

\* The step is a call of emit_if
EmitIfCalled ==
    /\ panic' = ""
    /\ instrs' = instrs
    /\ Len(targets') = Len(targets) + 1

\* The machine at the start of the bytes the step emitted
JvmAtStep(a, b) == [pc |-> wpos, stack |-> <<>>, locals |-> <<a, b>>]

\* C26: run on any two ints, the bytes emitted for an icmp with the predicate
\* eq, ne or a signed ordering reach the join label with one int on the
\* stack, 1 when the predicate holds of operand 0 and operand 1 and 0 when it
\* does not; the branch emit_if emits for a comparison kind is taken exactly
\* when that comparison holds of the value on the stack and zero.
C26_ICmpValue ==
    [][/\ SignedICmpLowered =>
            \A a, b \in CmpInputs :
                LET v  == instrs'[Len(instrs')]
                    st == JvmRun(code', entries', JvmAtStep(a, b), LabelOf(0), Len(code'))
                IN  /\ st.pc = LabelOf(0)
                    /\ st.stack = <<IF IcmpHolds(v.pred, ValueOf(v.ops[1], <<a, b>>),
                                                 ValueOf(v.ops[2], <<a, b>>))
                                    THEN 1 ELSE 0>>
       /\ EmitIfCalled =>
            \A a \in CmpInputs :
                LET ld == JvmStep(code', entries', JvmAtStep(a, a))
                    st == JvmStep(code', entries', ld)
                IN  /\ ld.stack = <<a>>
                    /\ st.stack = <<>>
                    /\ (st.pc # wpos') <=> ComparisonHolds(lastArgs'[1].a, a, 0)]_vars

\* An icmp sle of the second parameter with the first has been lowered
C26_Witness ==
    /\ panic = ""
    /\ \E i \in 1..Len(instrs) :
        /\ instrs[i].op = "ICmp"
        /\ instrs[i].pred = "SLE"
        /\ instrs[i].ops = <<Param(1, "i32"), Param(0, "i32")>>
        /\ i \in DOMAIN ssa_values

-----------------------------------------------------------------------------
(* Claims about the locals of the tracker                                   *)

RECURSIVE TypeAtSlot(_, _)
\* The verification type a list of locals gives the local slot s, "none" when
\* the list does not reach it
TypeAtSlot(list, s) ==
    IF list = <<>> THEN "none"
    ELSE IF s = 0 THEN Head(list)
    ELSE IF s < Width(Head(list)) THEN "Top"
    ELSE TypeAtSlot(Tail(list), s - Width(Head(list)))

\* The verification type of a value of a JavaType
VerificationTypeOfJavaType(ty) ==
    CASE ty = "Int" -> "Integer"
      [] ty = "Long" -> "Long"
      [] ty = "Float" -> "Float"
      [] ty = "Double" -> "Double"
      [] OTHER -> "Object"

\* The frame describes the slot of every result stored so far
DescribesStores(frame) ==
    \A i \in DOMAIN ssa_values :
        TypeAtSlot(frame.locals.list, ssa_values[i])
            = VerificationTypeOfJavaType(get_java_type(instrs[i].ty))

\* C27: after the store of a result the tracker's locals hold the result's
\* verification type at the slot stored to, and so does a frame recorded at
\* the end of the code emitted so far.
C27_LocalsFollowStores ==
    panic = "" =>
        /\ DescribesStores(current_frame)
        /\ wpos \in DOMAIN stackmaptable => DescribesStores(stackmaptable[wpos])

-----------------------------------------------------------------------------
(* Claims about the locals of the stack pointer                             *)

\* The block whose code holds the location loc
BlockAt(loc) ==
    CHOOSE b \in DOMAIN already_written :
        /\ already_written[b] <= loc
        /\ \A c \in DOMAIN already_written :
            already_written[c] <= loc => already_written[c] <= already_written[b]

\* The blocks the goto of the block b jumps to: one, or none when b returns
Successors(b) ==
    {BlockAt(patched[targets[k].jump_location]) :
        k \in {j \in 1..Len(targets) :
                /\ BlockAt(targets[j].instruction_location) = b
                /\ targets[j].jump_location \in DOMAIN patched}}

RECURSIVE PathFrom(_, _)
\* The blocks control passes through from the block b on, at most n + 1 of them
PathFrom(b, n) ==
    IF n = 0 \/ Successors(b) = {} THEN <<b>>
    ELSE <<b>> \o PathFrom(CHOOSE d \in Successors(b) : TRUE, n - 1)

\* The locations of the invokes of the method `name`
InvokesOf(name) == {invokes[k].location : k \in {j \in 1..Len(invokes) : invokes[j].name = name}}

\* The block reads the locals of the stack pointer: it holds an alloca's asSlice
ReadsStackPointer(b) == \E loc \in InvokesOf("asSlice") : BlockAt(loc) = b

\* The block holds the initialization of the locals of the stack pointer
InitializesStackPointer(b) == \E loc \in InvokesOf("getBase") : BlockAt(loc) = b

\* C28: in a translated function the initialization of the stack-pointer
\* locals is emitted at most once, and every block on the path from the entry
\* block that reads those locals is the block of the initialization or comes
\* after it on the path.
C28_InitializedOnEveryPath ==
    (pc = "done" /\ panic = "") =>
        /\ Cardinality(InvokesOf("getBase")) <= 1
        /\ LET path == PathFrom(1, nblocks)
           IN  \A k \in 1..Len(path) :
                   ReadsStackPointer(path[k]) =>
                       \E j \in 1..k : InitializesStackPointer(path[j])

-----------------------------------------------------------------------------
(* Claims about the tracked stack between instructions                      *)

-----------------------------------------------------------------------------
(* Claims about the order of the blocks                                     *)

RECURSIVE CountOf(_, _)
\* How many bytes of c are b; the operands of the functions translated stay
\* below the opcodes counted
CountOf(c, b) ==
    IF c = <<>> THEN 0
    ELSE (IF Head(c) = b THEN 1 ELSE 0) + CountOf(Tail(c), b)

\* iadd and imul
ArithmeticOpcode(op) == IF op = "Add" THEN 96 ELSE 104

\* C30: the code holds one arithmetic opcode for each arithmetic instruction
\* translate_method has reached, so no instruction is emitted twice and none
\* before translate_method reaches it.
C30_EachInstructionEmittedOnce ==
    panic = "" =>
        \A op \in {"Add", "Mul"} :
            CountOf(code, ArithmeticOpcode(op))
                = Cardinality({i \in 1..Len(instrs) : instrs[i].op = op})

====
